---- MODULE Spec2Model ----
(***************************************************************************)
(* Tortoise beacon (package tortoisebeacon): the vote codec, the vote      *)
(* margin tally, the adoption rule, the first-round own vote and the       *)
(* beacon hash list, as a state machine over the TortoiseBeacon fields.    *)
(*                                                                         *)
(* Proposals are the strings "0x1", "0x2", ...; the model writes them as   *)
(* the numbers 1, 2, ..., whose order is the lexicographic order of the    *)
(* strings.  A 64-bit word of a bit-vector is the set of its bit positions *)
(* (0 = least significant) that are 1, so no arithmetic overflows.         *)
(***************************************************************************)
EXTENDS Integers, Sequences, FiniteSets, TLC

VARIABLES
    validProposals,             \* tb.validProposals: epoch -> set of proposals
    potentiallyValidProposals,  \* tb.potentiallyValidProposals
    incomingVotes,              \* tb.incomingVotes: <<epoch, round>> -> (voter -> votesSetPair)
    ownVotes,                   \* tb.ownVotes: <<epoch, round>> -> votesSetPair
    weakCoin,                   \* the value the weak coin oracle answers Get with
    epochWeight,                \* what atxDB.GetEpochWeight answers
    config,                     \* tb.config: [Theta]
    beacons,                    \* tb.beacons: epoch -> beacon
    beaconsReady,               \* tb.beaconsReady: epoch -> channel, "open" or "closed"
    tortoiseBeaconDB,           \* tb.tortoiseBeaconDB: [isNil, store: epoch -> beacon]
    lastLayer,                  \* tb.lastLayer
    started,                    \* tb.started is closed
    closed,                     \* tb.CloseChannel() is closed
    firstRoundOutcomingVotes,   \* tb.firstRoundOutcomingVotes: epoch -> firstRoundVotes
    currentRounds,              \* tb.currentRounds: epoch -> round
    procs,                      \* the goroutines: [start: Start(), runs: id -> handleEpoch]
    pc,                         \* position of the caller
    arg,                        \* arguments of the call
    ret                         \* what the call returned

vars == <<validProposals, potentiallyValidProposals, incomingVotes, ownVotes,
          weakCoin, epochWeight, config, beacons, beaconsReady, tortoiseBeaconDB,
          lastLayer, started, closed, firstRoundOutcomingVotes, currentRounds, procs, pc, arg, ret>>

\* the fields of the epoch registry and of the running protocol
registryFields == <<beacons, beaconsReady, tortoiseBeaconDB, lastLayer, started, closed,
                    firstRoundOutcomingVotes, currentRounds, procs>>

tbFields == <<validProposals, potentiallyValidProposals, incomingVotes, ownVotes,
              weakCoin, epochWeight, config, registryFields>>

(***************************************************************************)
(* Bounds of the model and constants of the program.                       *)
(***************************************************************************)
NumProposals == 3
MaxLen == 3
WordBits == 64
Theta == 1

Proposal == 1..NumProposals
None == [none |-> TRUE]

(***************************************************************************)
(* Maps of Go: a function whose DOMAIN is the set of present keys.         *)
(***************************************************************************)
EmptyMap == [x \in {} |-> x]

Has(m, k) == k \in DOMAIN m

Put(m, k, v) == [x \in (DOMAIN m) \cup {k} |-> IF x = k THEN v ELSE m[x]]

emptyVotes == [ValidVotes |-> {}, InvalidVotes |-> {}]

\* the registry as New() builds it, no goroutine running
NewRegistry ==
    /\ beacons = EmptyMap
    /\ beaconsReady = EmptyMap
    /\ tortoiseBeaconDB = [isNil |-> TRUE, store |-> EmptyMap]
    /\ lastLayer = 0
    /\ started = FALSE
    /\ closed = FALSE
    /\ firstRoundOutcomingVotes = EmptyMap
    /\ currentRounds = EmptyMap
    /\ procs = [start |-> [pc |-> "new", epoch |-> 0], runs |-> EmptyMap]

(***************************************************************************)
(* Sequences.                                                              *)
(***************************************************************************)
Range(s) == {s[i] : i \in 1..Len(s)}

IsInjective(s) == \A i, j \in 1..Len(s) : s[i] = s[j] => i = j

\* every duplicate-free sequence of at most n elements of S
InjSeqs(S, n) == UNION {{s \in [1..k -> S] : IsInjective(s)} : k \in 0..n}

(***************************************************************************)
(* Vote codec (votes_encoder.go).  firstRound is the pair of lists a voter *)
(* sent in round 1; L = ValidProposals ++ PotentiallyValidProposals gives  *)
(* the bit positions.                                                      *)
(***************************************************************************)
NumWords(n) == (n + WordBits - 1) \div WordBits

\* bit k (0-based) of a bit-vector; a bit beyond the last word reads as 0
TestBit(bitVector, k) ==
    /\ (k \div WordBits) + 1 <= Len(bitVector)
    /\ (k % WordBits) \in bitVector[(k \div WordBits) + 1]

\* the bit-vector of n bits whose bits at the positions of S are 1
BitVectorOf(S, n) ==
    [w \in 1..NumWords(n) |-> {i \in 0..(WordBits - 1) : (w - 1) * WordBits + i \in S}]

\* the word a uint64 literal denotes (0b101 = 5 is {0, 2})
RECURSIVE WordOf(_)
WordOf(n) ==
    IF n = 0 THEN {}
    ELSE {i + 1 : i \in WordOf(n \div 2)} \cup (IF n % 2 = 1 THEN {0} ELSE {})

FirstRoundList(firstRound) ==
    firstRound.ValidProposals \o firstRound.PotentiallyValidProposals

encodeVotesPotentiallyValidFirst(currentRound, firstRound) ==
    LET L == firstRound.PotentiallyValidProposals \o firstRound.ValidProposals
    IN  BitVectorOf({k \in 0..(Len(L) - 1) : L[k + 1] \in currentRound.ValidVotes}, Len(L))

encodeVotes(currentRound, firstRound) ==
    LET L == FirstRoundList(firstRound)
    IN  BitVectorOf({k \in 0..(Len(L) - 1) : L[k + 1] \in currentRound.ValidVotes}, Len(L))

decodeVotesOffByOne(bitVector, firstRound) ==
    LET L == FirstRoundList(firstRound)
    IN  [ValidVotes   |-> {L[k + 1] : k \in {j \in 0..(Len(L) - 1) : TestBit(bitVector, j + 1)}},
         InvalidVotes |-> {L[k + 1] : k \in {j \in 0..(Len(L) - 1) : ~TestBit(bitVector, j + 1)}}]

decodeVotes(bitVector, firstRound) ==
    LET L == FirstRoundList(firstRound)
    IN  [ValidVotes   |-> {L[k + 1] : k \in {j \in 0..(Len(L) - 1) : TestBit(bitVector, j)}},
         InvalidVotes |-> {L[k + 1] : k \in {j \in 0..(Len(L) - 1) : ~TestBit(bitVector, j)}}]

(***************************************************************************)
(* The codec's callers: a sender encodes its current votes against its     *)
(* first-round lists, the receiver decodes the bit-vector against the      *)
(* lists that sender sent in round 1.                                      *)
(***************************************************************************)
SplitsOf(s) ==
    {[ValidProposals            |-> SubSeq(s, 1, k),
      PotentiallyValidProposals |-> SubSeq(s, k + 1, Len(s))] : k \in 0..Len(s)}

\* first-round lists: no proposal twice, valid ones before potentially valid
FirstRounds == UNION {SplitsOf(s) : s \in InjSeqs(Proposal, MaxLen)}

\* a first-round list that needs two words
LongFirstRound ==
    [ValidProposals            |-> [i \in 1..WordBits |-> i],
     PotentiallyValidProposals |-> <<WordBits + 1>>]

VotesSetPairs(S) ==
    {[ValidVotes |-> V, InvalidVotes |-> I] : V \in SUBSET S, I \in SUBSET S}

DisjointVotes(S) == {v \in VotesSetPairs(S) : v.ValidVotes \cap v.InvalidVotes = {}}

LongVotes ==
    {[ValidVotes |-> V, InvalidVotes |-> (1..(WordBits + 1)) \ V] :
        V \in SUBSET {1, WordBits, WordBits + 1}}

WellFormed(bitVector, n) ==
    /\ Len(bitVector) = NumWords(n)
    /\ \A w \in 1..Len(bitVector) : \A i \in bitVector[w] : (w - 1) * WordBits + i < n

\* bit-vectors a peer may send for a list of n proposals, well-formed or not
BitVectors(n) ==
    LET exact == {BitVectorOf(S, n) : S \in SUBSET (0..(n - 1))}
    IN  exact \cup {BitVectorOf(S, n + 1) : S \in SUBSET (0..n)}
              \cup {Append(b, {}) : b \in exact}

CodecInputs ==
    {[op |-> "encode", firstRound |-> f, currentRound |-> v] :
        f \in FirstRounds, v \in DisjointVotes(Proposal)}
    \cup {[op |-> "encode", firstRound |-> LongFirstRound, currentRound |-> v] : v \in LongVotes}
    \cup UNION {{[op |-> "decode", firstRound |-> f, bitVector |-> b] :
                    b \in BitVectors(Len(FirstRoundList(f)))} : f \in FirstRounds}
    \cup {[op |-> "decode", firstRound |-> LongFirstRound,
           bitVector |-> BitVectorOf(S, WordBits + 1)] : S \in SUBSET {0, WordBits - 1, WordBits}}

NoFields ==
    /\ validProposals = EmptyMap
    /\ potentiallyValidProposals = EmptyMap
    /\ incomingVotes = EmptyMap
    /\ ownVotes = EmptyMap
    /\ weakCoin = FALSE
    /\ epochWeight = 0
    /\ config = [Theta |-> Theta]
    /\ NewRegistry

InitCodec ==
    /\ NoFields
    /\ pc = "start"
    /\ arg \in CodecInputs
    /\ ret = None

\* sendFollowingVote: bitVector := tb.encodeVotes(ownCurrentRoundVotes, firstRound)
EncodeVotes ==
    /\ pc = "start"
    /\ arg.op = "encode"
    /\ ret' = [bitVector |-> encodeVotes(arg.currentRound, arg.firstRound)]
    /\ pc' = "encoded"
    /\ UNCHANGED <<tbFields, arg>>

\* the receiver of that bit-vector: tb.decodeVotes(bitVector, firstRound)
DecodeEncoded ==
    /\ pc = "encoded"
    /\ ret' = [bitVector |-> ret.bitVector,
               votes     |-> decodeVotes(ret.bitVector, arg.firstRound)]
    /\ pc' = "encoded_decoded"
    /\ UNCHANGED <<tbFields, arg>>

\* a received bit-vector: tb.decodeVotes(bitVector, firstRound)
DecodeVotes ==
    /\ pc = "start"
    /\ arg.op = "decode"
    /\ ret' = [votes |-> decodeVotes(arg.bitVector, arg.firstRound)]
    /\ pc' = "decoded"
    /\ UNCHANGED <<tbFields, arg>>

\* the decoded votes encoded again
EncodeDecoded ==
    /\ pc = "decoded"
    /\ ret' = [votes     |-> ret.votes,
               bitVector |-> encodeVotes(ret.votes, arg.firstRound)]
    /\ pc' = "decoded_encoded"
    /\ UNCHANGED <<tbFields, arg>>

NextCodec == EncodeVotes \/ DecodeEncoded \/ DecodeVotes \/ EncodeDecoded

SpecCodec == InitCodec /\ [][NextCodec]_vars

(***************************************************************************)
(* Claims about the codec.                                                 *)
(***************************************************************************)
ProposalsOf(votes) == votes.ValidVotes \cup votes.InvalidVotes

SupportedBy(votes, firstRound) == ProposalsOf(votes) \subseteq Range(FirstRoundList(firstRound))

Covers(votes, firstRound) == ProposalsOf(votes) = Range(FirstRoundList(firstRound))

\* C1 as claimed: decodeVotes(encodeVotes(v, L), L) = v for every vote set v
\* whose proposals are all in L.
C1_RoundTripEveryVoteSetInL ==
    (pc = "encoded_decoded" /\ SupportedBy(arg.currentRound, arg.firstRound))
        => ret.votes = arg.currentRound

\* C1 amended: decodeVotes(encodeVotes(v, L), L) = v for every vote set v that
\* votes on exactly the proposals of L (ValidVotes and InvalidVotes disjoint,
\* their union the set of L's proposals); a proposal of L that v leaves out
\* comes back as an invalid vote.
C1_RoundTripCoveringVoteSet ==
    pc = "encoded_decoded" =>
        /\ Covers(arg.currentRound, arg.firstRound) => ret.votes = arg.currentRound
        /\ SupportedBy(arg.currentRound, arg.firstRound) =>
              /\ ret.votes.ValidVotes = arg.currentRound.ValidVotes
              /\ ret.votes.InvalidVotes =
                    Range(FirstRoundList(arg.firstRound)) \ arg.currentRound.ValidVotes

C1_Witness ==
    /\ pc = "encoded_decoded"
    /\ Covers(arg.currentRound, arg.firstRound)
    /\ arg.currentRound.ValidVotes # {}
    /\ arg.currentRound.InvalidVotes # {}
    /\ Len(arg.firstRound.PotentiallyValidProposals) > 0
    /\ ret.votes = arg.currentRound

\* bit i (0-based) of the encoded vector, for the proposal L[i + 1]
BitOfProposal(bitVector, i) == TestBit(bitVector, i)

S3FirstRound == [ValidProposals |-> <<1, 2>>, PotentiallyValidProposals |-> <<3>>]

S3Votes == [ValidVotes |-> {1, 3}, InvalidVotes |-> {2}]

\* C2 as claimed: bit i of encodeVotes(v, L) is 1 iff L[i] is in v.ValidVotes
\* and 0 iff L[i] is in v.InvalidVotes.
C2_BitIsZeroIffInvalid ==
    pc = "encoded" =>
        LET L == FirstRoundList(arg.firstRound)
        IN  \A i \in 0..(Len(L) - 1) :
                /\ BitOfProposal(ret.bitVector, i) <=> L[i + 1] \in arg.currentRound.ValidVotes
                /\ ~BitOfProposal(ret.bitVector, i) <=> L[i + 1] \in arg.currentRound.InvalidVotes

\* C2 amended: bit i of encodeVotes(v, L), L = valids then potentially-valids,
\* is 1 iff L[i] is in v.ValidVotes and 0 otherwise, so it is 0 for L[i] in
\* v.InvalidVotes and also for a proposal of L that v does not vote on; the
\* vector has |L| rounded up to whole words, bits from |L| on are 0, and
\* L=[0x1,0x2,0x3], Valid={0x1,0x3}, Invalid={0x2} encodes to [0b101].
C2_BitIsOneIffValid ==
    pc = "encoded" =>
        LET L == FirstRoundList(arg.firstRound)
        IN  /\ \A i \in 0..(Len(L) - 1) :
                  /\ BitOfProposal(ret.bitVector, i) <=> L[i + 1] \in arg.currentRound.ValidVotes
                  /\ L[i + 1] \in arg.currentRound.InvalidVotes => ~BitOfProposal(ret.bitVector, i)
            /\ WellFormed(ret.bitVector, Len(L))
            /\ (arg.firstRound = S3FirstRound /\ arg.currentRound = S3Votes)
                  => ret.bitVector = <<WordOf(5)>>

C2_Witness ==
    /\ pc = "encoded"
    /\ arg.firstRound = S3FirstRound
    /\ arg.currentRound = S3Votes
    /\ ret.bitVector = <<{0, 2}>>

\* a proposal of L that the vote set leaves out is encoded as 0 all the same
C2_WitnessUnvoted ==
    /\ pc = "encoded"
    /\ \E i \in 1..Len(FirstRoundList(arg.firstRound)) :
          /\ FirstRoundList(arg.firstRound)[i] \notin ProposalsOf(arg.currentRound)
          /\ ~BitOfProposal(ret.bitVector, i - 1)

\* C3: for a first-round list L without repeated proposals and a bit-vector b
\* of |L| rounded up to whole 64-bit words whose bits from |L| on are 0,
\* encodeVotes(decodeVotes(b, L), L) = b and decodeVotes(b, L) names only
\* proposals of L (each of them, as valid or as invalid, never as both).
C3_DecodeThenEncode ==
    (pc = "decoded_encoded"
        /\ WellFormed(arg.bitVector, Len(FirstRoundList(arg.firstRound)))) =>
        /\ ret.bitVector = arg.bitVector
        /\ Covers(ret.votes, arg.firstRound)
        /\ ret.votes.ValidVotes \cap ret.votes.InvalidVotes = {}
        /\ (arg.firstRound = S3FirstRound /\ arg.bitVector = <<WordOf(5)>>)
              => ret.votes = S3Votes

C3_Witness ==
    /\ pc = "decoded_encoded"
    /\ arg.firstRound = LongFirstRound
    /\ arg.bitVector = <<{0, WordBits - 1}, {0}>>
    /\ ret.votes.ValidVotes = {1, WordBits, WordBits + 1}
    /\ ret.bitVector = arg.bitVector

(***************************************************************************)
(* Vote tally (votes_calc.go): the margin of the first round, the margin   *)
(* of the rounds up to r, over tb.incomingVotes.                           *)
(***************************************************************************)
firstRound == 1
RoundsNumber == 3
TestEpoch == 5
OtherEpoch == TestEpoch - 1
NumVoted == 2
MaxMentions == 2

NodeIDs == {"pk1", "pk2"}

voteWeightZero(pk, epochID) == 0

\* the weight lookup is switched off: every vote weighs 1
voteWeight(pk, epochID) == 1

\* tb.incomingVotes[epochRoundPair{epoch, round}]; a missing key reads as an empty map
votesOf(epoch, round) ==
    IF Has(incomingVotes, <<epoch, round>>) THEN incomingVotes[<<epoch, round>>] ELSE EmptyMap

\* votesOf(...)[pk]; a missing voter reads as the zero votesSetPair
recordOf(epoch, round, pk) ==
    IF Has(votesOf(epoch, round), pk) THEN votesOf(epoch, round)[pk] ELSE emptyVotes

\* for vote := range votes { margin[vote] += d } (a missing key starts at 0)
AddVotes(margin, votes, d) ==
    [p \in (DOMAIN margin) \cup votes |->
        (IF p \in DOMAIN margin THEN margin[p] ELSE 0) + (IF p \in votes THEN d ELSE 0)]

\* one voter's votes added: valid votes count +weight, invalid votes -weight
AddVoter(margin, votes, weight) ==
    AddVotes(AddVotes(margin, votes.ValidVotes, weight), votes.InvalidVotes, -weight)

RECURSIVE addFirstRoundVoters(_, _, _)
addFirstRoundVoters(margin, epoch, pks) ==
    IF pks = {} THEN margin
    ELSE LET pk == CHOOSE x \in pks : TRUE
         IN  addFirstRoundVoters(
                 AddVoter(margin, recordOf(epoch, firstRound, pk), voteWeight(pk, epoch)),
                 epoch, pks \ {pk})

firstRoundVotes(epoch) ==
    addFirstRoundVoters(EmptyMap, epoch, DOMAIN votesOf(epoch, firstRound))

currentVotesOfRecordOnly(first, record) == record

\* what a voter votes in a following round: the votes of its record of that
\* round, and its first-round votes on the proposals that record leaves out
currentVotes(first, record) ==
    [ValidVotes   |-> record.ValidVotes \cup (first.ValidVotes \ record.InvalidVotes),
     InvalidVotes |-> record.InvalidVotes \cup (first.InvalidVotes \ record.ValidVotes)]

RECURSIVE addRoundVoters(_, _, _, _)
addRoundVoters(margin, epoch, round, pks) ==
    IF pks = {} THEN margin
    ELSE LET pk == CHOOSE x \in pks : TRUE
             votes == currentVotes(recordOf(epoch, firstRound, pk), recordOf(epoch, round, pk))
         IN  addRoundVoters(AddVoter(margin, votes, voteWeight(pk, epoch)),
                            epoch, round, pks \ {pk})

\* for round := firstRound + 1; round <= upToRound; round++ { ... }
RECURSIVE addRounds(_, _, _, _)
addRounds(margin, epoch, round, upToRound) ==
    IF round > upToRound THEN margin
    ELSE addRounds(addRoundVoters(margin, epoch, round, DOMAIN votesOf(epoch, round)),
                   epoch, round + 1, upToRound)

calcVotesMargin(epoch, upToRound, votesMargin) ==
    addRounds(votesMargin, epoch, firstRound + 1, upToRound)

(***************************************************************************)
(* Inputs of the tally: every tb.incomingVotes of TestEpoch made of at     *)
(* most MaxMentions votes of the voters on the proposals 1..NumVoted, and  *)
(* the vote streams of votes_calc_test.go on six proposals.                *)
(***************************************************************************)
Rounds == firstRound..RoundsNumber

NodeIDList == <<"pk1", "pk2">>

\* the votes a voter can cast: vote number n is one voter's vote, valid or
\* invalid, on one proposal in one round
NumMentions == RoundsNumber * Len(NodeIDList) * NumVoted * 2

MentionOf(n) ==
    [valid |-> n % 2 = 1,
     p     |-> ((n \div 2) % NumVoted) + 1,
     pk    |-> NodeIDList[((n \div (2 * NumVoted)) % Len(NodeIDList)) + 1],
     round |-> (n \div (2 * NumVoted * Len(NodeIDList))) + firstRound]

\* the sets of at most k votes, each listed once
MentionSets(k) ==
    UNION {{{MentionOf(s[i]) : i \in 1..j} :
               s \in {t \in [1..j -> 0..(NumMentions - 1)] : \A i \in 1..(j - 1) : t[i] < t[i + 1]}} :
           j \in 0..k}

\* a voter's record of one round never holds a proposal as valid and as invalid
OneVoteEach(ms) ==
    \A a \in ms : \A b \in ms :
        (a.round = b.round /\ a.pk = b.pk /\ a.p = b.p) => a.valid = b.valid

VotesOfMentions(ms, round, pk) ==
    [ValidVotes   |-> {m.p : m \in {x \in ms : x.round = round /\ x.pk = pk /\ x.valid}},
     InvalidVotes |-> {m.p : m \in {x \in ms : x.round = round /\ x.pk = pk /\ ~x.valid}}]

\* the records of another epoch, which no tally of TestEpoch may count
OtherEpochVotes(key) ==
    IF key[2] = firstRound
    THEN [pk \in NodeIDs |-> [ValidVotes |-> {1}, InvalidVotes |-> {}]]
    ELSE [pk \in NodeIDs |-> [ValidVotes |-> {}, InvalidVotes |-> {1}]]

\* every voter has a record, possibly empty, in every round
IncomingVotesOf(ms, voters) ==
    [key \in {OtherEpoch, TestEpoch} \X Rounds |->
        IF key[1] = OtherEpoch THEN OtherEpochVotes(key)
        ELSE [pk \in voters |-> VotesOfMentions(ms, key[2], pk)]]

Votes2(valid, invalid) == [ValidVotes |-> valid, InvalidVotes |-> invalid]

\* TestTortoiseBeacon_firstRoundVotes
FirstRoundTestVotes ==
    (<<TestEpoch, 1>> :> ("pk1" :> Votes2({1, 2}, {3, 5, 6}) @@ "pk2" :> Votes2({1, 4, 5}, {6})))

\* TestTortoiseBeacon_calcOwnFirstRoundVotes
OwnFirstRoundTestVotes ==
    (<<TestEpoch, 1>> :> ("pk1" :> Votes2({1, 2}, {3, 6}) @@ "pk2" :> Votes2({1, 4, 5}, {6})))

\* TestTortoiseBeacon_calcVotesMargin
MarginTestVotes ==
    (<<TestEpoch, 1>> :> ("pk1" :> Votes2({1, 2}, {3}) @@ "pk2" :> Votes2({1, 4, 5}, {6})))
    @@ (<<TestEpoch, 2>> :> ("pk1" :> Votes2({3}, {2}) @@ "pk2" :> Votes2({}, {})))
    @@ (<<TestEpoch, 3>> :> ("pk1" :> Votes2({}, {}) @@ "pk2" :> Votes2({6}, {5})))

TestVotes == {FirstRoundTestVotes, OwnFirstRoundTestVotes, MarginTestVotes}

\* the sets of at most MaxMentions votes of the voters
VotesOfVoters(voters) ==
    {x \in MentionSets(MaxMentions) : OneVoteEach(x) /\ \A m \in x : m.pk \in voters}

InitVotes ==
    /\ validProposals = EmptyMap
    /\ potentiallyValidProposals = EmptyMap
    /\ \/ incomingVotes \in {EmptyMap} \cup TestVotes
       \/ \E voters \in SUBSET NodeIDs : \E ms \in VotesOfVoters(voters) :
             incomingVotes = IncomingVotesOf(ms, voters)
    /\ ownVotes = EmptyMap
    /\ weakCoin = FALSE
    /\ epochWeight = 0
    /\ config = [Theta |-> Theta]
    /\ NewRegistry
    /\ pc = "start"
    /\ arg = [epoch |-> TestEpoch]
    /\ ret = None

\* votesMargin, err := tb.firstRoundVotes(epoch)
FirstRoundVotes ==
    /\ pc = "start"
    /\ ret' = [firstRound |-> firstRoundVotes(arg.epoch)]
    /\ pc' = "firstRound"
    /\ UNCHANGED <<tbFields, arg>>

\* tb.calcVotesMargin(epoch, upToRound, votesMargin), which updates votesMargin in place
CalcVotesMargin ==
    /\ pc = "firstRound"
    /\ \E upToRound \in Rounds :
          ret' = [firstRound  |-> ret.firstRound,
                  upToRound   |-> upToRound,
                  votesMargin |-> calcVotesMargin(arg.epoch, upToRound, ret.firstRound)]
    /\ pc' = "margin"
    /\ UNCHANGED <<tbFields, arg>>

NextVotes == FirstRoundVotes \/ CalcVotesMargin

SpecVotes == InitVotes /\ [][NextVotes]_vars

(***************************************************************************)
(* Claims about the tally.                                                 *)
(***************************************************************************)
\* the weight of a set of voters
RECURSIVE WeightOfVoters(_, _)
WeightOfVoters(pks, epoch) ==
    IF pks = {} THEN 0
    ELSE LET pk == CHOOSE x \in pks : TRUE
         IN  voteWeight(pk, epoch) + WeightOfVoters(pks \ {pk}, epoch)

\* the weight of a set of <<round, voter>> pairs: a voter counts once in each round
RECURSIVE WeightOfPairs(_, _)
WeightOfPairs(pairs, epoch) ==
    IF pairs = {} THEN 0
    ELSE LET pair == CHOOSE x \in pairs : TRUE
         IN  voteWeight(pair[2], epoch) + WeightOfPairs(pairs \ {pair}, epoch)

MarginAt(margin, p) == IF p \in DOMAIN margin THEN margin[p] ELSE 0

\* the voters with a record in a round, paired with the round
RecordsOf(epoch, fromRound, upToRound) ==
    {pair \in (fromRound..upToRound) \X NodeIDs : pair[2] \in DOMAIN votesOf(epoch, pair[1])}

MentionedUpTo(epoch, upToRound) ==
    UNION {ProposalsOf(recordOf(epoch, pair[1], pair[2])) :
              pair \in RecordsOf(epoch, firstRound, upToRound)}

S4Margins == (1 :> 2) @@ (2 :> 1) @@ (3 :> -1) @@ (4 :> 1) @@ (5 :> 0) @@ (6 :> -2)

\* C4: the first-round margin of every proposal some voter mentions is the
\* weight of the voters holding it valid minus the weight of the voters
\* holding it invalid; a proposal of margin 0 is in the map; the first-round
\* stream of the test gives +2, +1, -1, +1, 0, -2.
C4_FirstRoundMargin ==
    pc \in {"firstRound", "margin"} =>
        LET votes == votesOf(arg.epoch, firstRound)
            margin == ret.firstRound
        IN  /\ DOMAIN margin = UNION {ProposalsOf(votes[pk]) : pk \in DOMAIN votes}
            /\ \A p \in DOMAIN margin :
                  margin[p] = WeightOfVoters({pk \in DOMAIN votes : p \in votes[pk].ValidVotes}, arg.epoch)
                              - WeightOfVoters({pk \in DOMAIN votes : p \in votes[pk].InvalidVotes}, arg.epoch)
            /\ (incomingVotes = FirstRoundTestVotes => margin = S4Margins)

C4_Witness ==
    /\ pc = "firstRound"
    /\ incomingVotes = FirstRoundTestVotes
    /\ 5 \in DOMAIN ret.firstRound
    /\ ret.firstRound[5] = 0

\* the votes the records of the rounds fromRound..upToRound hold on p
RecordValid(epoch, upToRound, p) ==
    {pair \in RecordsOf(epoch, firstRound + 1, upToRound) :
        p \in recordOf(epoch, pair[1], pair[2]).ValidVotes}

RecordInvalid(epoch, upToRound, p) ==
    {pair \in RecordsOf(epoch, firstRound + 1, upToRound) :
        p \in recordOf(epoch, pair[1], pair[2]).InvalidVotes}

\* the records of the following rounds that leave p out, of a voter whose
\* first-round record holds p valid (invalid)
UnmentionedValid(epoch, upToRound, p) ==
    {pair \in RecordsOf(epoch, firstRound + 1, upToRound) :
        /\ p \notin ProposalsOf(recordOf(epoch, pair[1], pair[2]))
        /\ p \in recordOf(epoch, firstRound, pair[2]).ValidVotes}

UnmentionedInvalid(epoch, upToRound, p) ==
    {pair \in RecordsOf(epoch, firstRound + 1, upToRound) :
        /\ p \notin ProposalsOf(recordOf(epoch, pair[1], pair[2]))
        /\ p \in recordOf(epoch, firstRound, pair[2]).InvalidVotes}

\* C5 as stated: the margin after r rounds is the first-round margin plus
\* the votes of the records of the rounds 2..r, and a record that leaves p
\* out adds nothing for p.
C5_MarginIsSumOfRecords ==
    pc = "margin" =>
        \A p \in DOMAIN ret.votesMargin :
            ret.votesMargin[p] =
                MarginAt(ret.firstRound, p)
                + WeightOfPairs(RecordValid(arg.epoch, ret.upToRound, p), arg.epoch)
                - WeightOfPairs(RecordInvalid(arg.epoch, ret.upToRound, p), arg.epoch)

\* C5 amended: the margin after r rounds is the first-round margin plus the
\* votes of the records of the rounds 2..r, plus, for every record of those
\* rounds that leaves p out, the first-round vote of its voter on p.
C5_MarginIsSumOfRecordsAndFirstRoundVotes ==
    pc = "margin" =>
        \A p \in DOMAIN ret.votesMargin :
            ret.votesMargin[p] =
                MarginAt(ret.firstRound, p)
                + WeightOfPairs(RecordValid(arg.epoch, ret.upToRound, p), arg.epoch)
                - WeightOfPairs(RecordInvalid(arg.epoch, ret.upToRound, p), arg.epoch)
                + WeightOfPairs(UnmentionedValid(arg.epoch, ret.upToRound, p), arg.epoch)
                - WeightOfPairs(UnmentionedInvalid(arg.epoch, ret.upToRound, p), arg.epoch)

\* a record of a following round leaves out a proposal its voter voted on in
\* the first round, and the tally of that round has counted the first-round vote
C5_Witness ==
    /\ pc = "margin"
    /\ \E p \in DOMAIN ret.votesMargin :
          /\ UnmentionedValid(arg.epoch, ret.upToRound, p) # {}
          /\ UnmentionedInvalid(arg.epoch, ret.upToRound, p) = {}
          /\ RecordValid(arg.epoch, ret.upToRound, p) = {}
          /\ RecordInvalid(arg.epoch, ret.upToRound, p) = {}
          /\ ret.votesMargin[p] > ret.firstRound[p]

\* the vote of a voter on p in a round: +1 valid, -1 invalid, 0 none
VoteIn(epoch, round, pk, p) ==
    LET first == recordOf(epoch, firstRound, pk)
        record == recordOf(epoch, round, pk)
        signOf(votes) == IF p \in votes.ValidVotes THEN 1
                         ELSE IF p \in votes.InvalidVotes THEN -1 ELSE 0
    IN  IF round = firstRound \/ p \in ProposalsOf(record) THEN signOf(record) ELSE signOf(first)

MarginTestMargins == (1 :> 6) @@ (2 :> 1) @@ (3 :> -1) @@ (4 :> 3) @@ (5 :> 1) @@ (6 :> -1)

\* C6: the margin after r rounds counts every voter once in every round
\* 1..r it has a record in, with the sign of its record of that round where
\* the record mentions the proposal and of its first-round vote where it
\* does not; the three rounds of the test give 6, 1, -1, 3, 1, -1.
C6_OneVotePerVoterPerRound ==
    pc = "margin" =>
        LET records == RecordsOf(arg.epoch, firstRound, ret.upToRound)
            margin == ret.votesMargin
        IN  /\ DOMAIN margin = MentionedUpTo(arg.epoch, ret.upToRound)
            /\ \A p \in DOMAIN margin :
                  margin[p] =
                      WeightOfPairs({x \in records : VoteIn(arg.epoch, x[1], x[2], p) = 1}, arg.epoch)
                      - WeightOfPairs({x \in records : VoteIn(arg.epoch, x[1], x[2], p) = -1}, arg.epoch)
            /\ (incomingVotes = MarginTestVotes /\ ret.upToRound = RoundsNumber
                    => margin = MarginTestMargins)

C6_Witness ==
    /\ pc = "margin"
    /\ incomingVotes = MarginTestVotes
    /\ ret.upToRound = RoundsNumber
    /\ ret.votesMargin[1] = 6
    /\ ret.votesMargin[3] = -1

(***************************************************************************)
(* Adoption of the node's own votes from a margin map (votes_calc.go).     *)
(***************************************************************************)
MaxWeight == 2
MaxMargin == 2
CurrentRoundTestThreshold == 3

votingThresholdOfWeightOnly(epochID) == epochWeight

\* int(tb.config.Theta * float64(epochWeight)), epochWeight being the answer
\* of atxDB.GetEpochWeight(epochID)
votingThreshold(epochID) == config.Theta * epochWeight

\* tb.weakCoin.Get(epoch, round)
weakCoinGet(epoch, round) == weakCoin

isValidVoteAboveThresholdOnly(margin, threshold, coin) ==
    IF margin > threshold THEN TRUE
    ELSE IF margin < -threshold THEN FALSE
    ELSE coin

\* the vote on a proposal of the given margin: the sign of the margin once
\* the margin reaches the threshold, the coin below it
isValidVote(margin, threshold, coin) ==
    IF margin >= threshold THEN TRUE
    ELSE IF margin <= -threshold THEN FALSE
    ELSE coin

ownVotesOfEachCase(votesMargin, threshold, coin) ==
    [ValidVotes   |-> {p \in DOMAIN votesMargin : votesMargin[p] >= threshold \/ coin},
     InvalidVotes |-> {p \in DOMAIN votesMargin : votesMargin[p] <= -threshold \/ ~coin}]

ownVotesOf(votesMargin, threshold, coin) ==
    [ValidVotes   |-> {p \in DOMAIN votesMargin : isValidVote(votesMargin[p], threshold, coin)},
     InvalidVotes |-> {p \in DOMAIN votesMargin : ~isValidVote(votesMargin[p], threshold, coin)}]

calcOwnFirstRoundVotes(epoch, votesMargin) ==
    ownVotesOf(votesMargin, votingThreshold(epoch), weakCoinGet(epoch, firstRound))

calcOwnCurrentRoundVotes(epoch, round, votesMargin) ==
    ownVotesOf(votesMargin, votingThreshold(epoch), weakCoinGet(epoch, round))

\* TestTortoiseBeacon_calcOwnCurrentRoundVotes
CurrentRoundTestMargin ==
    (1 :> CurrentRoundTestThreshold * 2) @@ (2 :> -CurrentRoundTestThreshold * 3)
    @@ (3 :> CurrentRoundTestThreshold \div 2)

MarginMaps ==
    {CurrentRoundTestMargin}
    \cup UNION {[S -> (-MaxMargin)..MaxMargin] : S \in SUBSET Proposal}

EpochWeights == (0..MaxWeight) \cup {CurrentRoundTestThreshold}

InitAdoption ==
    /\ validProposals = EmptyMap
    /\ potentiallyValidProposals = EmptyMap
    /\ ownVotes = EmptyMap
    /\ weakCoin \in BOOLEAN
    /\ epochWeight \in EpochWeights
    /\ config = [Theta |-> Theta]
    /\ NewRegistry
    /\ ret = None
    /\ \/ /\ pc = "start"
          /\ incomingVotes \in TestVotes
          /\ arg = [epoch |-> TestEpoch]
       \/ /\ pc = "votesMargin"
          /\ incomingVotes = EmptyMap
          /\ \E round \in (firstRound + 1)..RoundsNumber : \E votesMargin \in MarginMaps :
                arg = [epoch |-> TestEpoch, round |-> round, votesMargin |-> votesMargin]

\* result, err := tb.calcOwnFirstRoundVotes(epoch, votesMargin)
CalcOwnFirstRoundVotes ==
    /\ pc = "firstRound"
    /\ LET result == calcOwnFirstRoundVotes(arg.epoch, ret.firstRound)
       IN  /\ ret' = [firstRound |-> ret.firstRound, ownFirstRoundVotes |-> result]
           /\ ownVotes' = Put(ownVotes, <<arg.epoch, firstRound>>, result)
    /\ pc' = "ownFirstRound"
    /\ UNCHANGED <<validProposals, potentiallyValidProposals, incomingVotes,
                   weakCoin, epochWeight, config, registryFields, arg>>

\* result, err := tb.calcOwnCurrentRoundVotes(epoch, round, votesMargin)
CalcOwnCurrentRoundVotes ==
    /\ pc = "votesMargin"
    /\ LET result == calcOwnCurrentRoundVotes(arg.epoch, arg.round, arg.votesMargin)
       IN  /\ ret' = [ownCurrentRoundVotes |-> result]
           /\ ownVotes' = Put(ownVotes, <<arg.epoch, arg.round>>, result)
    /\ pc' = "ownCurrentRound"
    /\ UNCHANGED <<validProposals, potentiallyValidProposals, incomingVotes,
                   weakCoin, epochWeight, config, registryFields, arg>>

NextAdoption == FirstRoundVotes \/ CalcOwnFirstRoundVotes \/ CalcOwnCurrentRoundVotes

SpecAdoption == InitAdoption /\ [][NextAdoption]_vars

(***************************************************************************)
(* Claims about the adoption.                                              *)
(***************************************************************************)
\* the margin map an adoption has read and the votes it has returned
AdoptedFrom == IF pc = "ownFirstRound" THEN ret.firstRound ELSE arg.votesMargin

Adopted == IF pc = "ownFirstRound" THEN ret.ownFirstRoundVotes ELSE ret.ownCurrentRoundVotes

HasAdopted == pc \in {"ownFirstRound", "ownCurrentRound"}

OwnFirstRoundTestThreshold == 2

\* a first-round tally of the six proposals with 0x1 at +2, 0x6 at -2 and
\* every other margin below 2 in absolute value
IsS5Tally(margin) ==
    /\ DOMAIN margin = 1..6
    /\ margin[1] = 2
    /\ margin[6] = -2
    /\ \A p \in 2..5 : margin[p] < 2 /\ margin[p] > -2

\* C8: with threshold 2 and such a tally the own votes are Valid={0x1},
\* Invalid={0x2..0x6} when the coin is false and Valid={0x1..0x5},
\* Invalid={0x6} when it is true: the margins +2 and -2, equal to the
\* threshold, keep their sign under either coin.
C8_ThresholdKeepsSign ==
    (pc = "ownFirstRound" /\ Theta * epochWeight = OwnFirstRoundTestThreshold
        /\ IsS5Tally(ret.firstRound)) =>
        /\ ~weakCoin => ret.ownFirstRoundVotes = [ValidVotes |-> {1}, InvalidVotes |-> 2..6]
        /\ weakCoin => ret.ownFirstRoundVotes = [ValidVotes |-> 1..5, InvalidVotes |-> {6}]
        /\ ownVotes[<<arg.epoch, firstRound>>] = ret.ownFirstRoundVotes

C8_Witness ==
    /\ pc = "ownFirstRound"
    /\ incomingVotes = OwnFirstRoundTestVotes
    /\ Theta * epochWeight = OwnFirstRoundTestThreshold
    /\ IsS5Tally(ret.firstRound)
    /\ ~weakCoin
    /\ ret.ownFirstRoundVotes.ValidVotes = {1}

C8_WitnessCoinTrue ==
    /\ pc = "ownFirstRound"
    /\ incomingVotes = FirstRoundTestVotes
    /\ Theta * epochWeight = OwnFirstRoundTestThreshold
    /\ IsS5Tally(ret.firstRound)
    /\ weakCoin
    /\ ret.ownFirstRoundVotes.InvalidVotes = {6}

(***************************************************************************)
(* Sorted lists of proposals.  A range over a Go map visits the keys in an *)
(* order the program does not choose: any order of the set.                *)
(***************************************************************************)
Orders(S) == {s \in [1..Cardinality(S) -> S] : IsInjective(s)}

RECURSIVE insertSorted(_, _)
insertSorted(list, x) ==
    IF list = <<>> THEN <<x>>
    ELSE IF x < Head(list) THEN <<x>> \o list
    ELSE <<Head(list)>> \o insertSorted(Tail(list), x)

RECURSIVE sortList(_)
sortList(list) ==
    IF list = <<>> THEN <<>>
    ELSE insertSorted(sortList(Tail(list)), Head(list))

notSorted(list) == list

\* proposalList.Sort()
Sort(list) == sortList(list)

\* sort.Slice(allHashes, func(i, j) { strings.Compare(allHashes[i], allHashes[j]) == -1 })
sortSlice(allHashes) == sortList(allHashes)

IsAscending(list) == \A i \in 1..(Len(list) - 1) : list[i] < list[i + 1]

(***************************************************************************)
(* The node's own first-round vote (votes_calc.go, calcVotesFromProposals).*)
(***************************************************************************)
\* tb.validProposals[epoch], tb.potentiallyValidProposals[epoch]: a missing
\* key reads as an empty set
proposalsOf(proposals, epoch) == IF Has(proposals, epoch) THEN proposals[epoch] ELSE {}

\* the two sets are ranged over in the orders given and the lists are sorted
calcVotesFromProposals(validOrder, potentiallyValidOrder) ==
    [ValidVotes            |-> Sort(validOrder),
     PotentiallyValidVotes |-> Sort(potentiallyValidOrder)]

Epochs == {OtherEpoch, TestEpoch}

\* TestTortoiseBeacon_calcVotesFromProposals
ProposalsTestValid == {1, 2, 3}

ProposalsTestPotentiallyValid == {4, 5, 6}

ProposalsMaps == UNION {[E -> SUBSET Proposal] : E \in SUBSET Epochs}

InitProposals ==
    /\ \/ /\ validProposals \in ProposalsMaps
          /\ potentiallyValidProposals \in ProposalsMaps
          /\ \A e \in Epochs :
                proposalsOf(validProposals, e) \cap proposalsOf(potentiallyValidProposals, e) = {}
       \/ /\ validProposals = [e \in Epochs |-> ProposalsTestValid]
          /\ potentiallyValidProposals = [e \in Epochs |-> ProposalsTestPotentiallyValid]
    /\ incomingVotes = EmptyMap
    /\ ownVotes = EmptyMap
    /\ weakCoin = FALSE
    /\ epochWeight = 0
    /\ config = [Theta |-> Theta]
    /\ NewRegistry
    /\ pc = "start"
    /\ arg \in [epoch : Epochs]
    /\ ret = None

\* sendProposalVote: votes := tb.calcVotesFromProposals(epoch)
CalcVotesFromProposals ==
    /\ pc = "start"
    /\ \E validOrder \in Orders(proposalsOf(validProposals, arg.epoch)) :
       \E potentiallyValidOrder \in Orders(proposalsOf(potentiallyValidProposals, arg.epoch)) :
          ret' = [ranged |-> <<validOrder, potentiallyValidOrder>>,
                  votes  |-> calcVotesFromProposals(validOrder, potentiallyValidOrder)]
    /\ pc' = "votesFromProposals"
    /\ UNCHANGED <<tbFields, arg>>

NextProposals == CalcVotesFromProposals

SpecProposals == InitProposals /\ [][NextProposals]_vars

\* C9: the own first-round vote lists the valid proposals of the epoch as
\* ValidVotes and its potentially valid proposals as PotentiallyValidVotes,
\* each list ascending, every proposal once, none added, dropped or moved to
\* the other list.
C9_VotesFromProposals ==
    pc = "votesFromProposals" =>
        /\ Range(ret.votes.ValidVotes) = proposalsOf(validProposals, arg.epoch)
        /\ Range(ret.votes.PotentiallyValidVotes) = proposalsOf(potentiallyValidProposals, arg.epoch)
        /\ IsAscending(ret.votes.ValidVotes)
        /\ IsAscending(ret.votes.PotentiallyValidVotes)
        /\ (validProposals = [e \in Epochs |-> ProposalsTestValid]
              /\ potentiallyValidProposals = [e \in Epochs |-> ProposalsTestPotentiallyValid])
               => ret.votes = [ValidVotes |-> <<1, 2, 3>>, PotentiallyValidVotes |-> <<4, 5, 6>>]

\* both sets hold two proposals or more and were ranged over out of order
C9_Witness ==
    /\ pc = "votesFromProposals"
    /\ Len(ret.votes.ValidVotes) >= 2
    /\ Len(ret.votes.PotentiallyValidVotes) >= 1
    /\ ~IsAscending(ret.ranged[1])
    /\ ret.votes.ValidVotes # ret.ranged[1]
    /\ Has(validProposals, OtherEpoch)
    /\ validProposals[OtherEpoch] # validProposals[arg.epoch]

(***************************************************************************)
(* The hash list of the beacon (beacon_calc.go).                           *)
(***************************************************************************)
\* types.RoundID(tb.config.RoundsNumber)
lastPossibleRound == RoundsNumber

\* the own votes of a round from the votes received: the first-round margin,
\* the own first-round votes, the margin up to the round, the own votes of
\* the round
calcVotes(epoch, round) ==
    LET firstRoundMargin == firstRoundVotes(epoch)
        ownFirstRoundVotes == calcOwnFirstRoundVotes(epoch, firstRoundMargin)
        votesMargin == calcVotesMargin(epoch, round, firstRoundMargin)
    IN  [ownFirstRoundVotes   |-> ownFirstRoundVotes,
         ownCurrentRoundVotes |-> calcOwnCurrentRoundVotes(epoch, round, votesMargin)]

\* tb.ownVotes once calcVotes(epoch, round) has recorded the votes it adopted
ownVotesAfterCalcVotes(epoch, round) ==
    Put(Put(ownVotes, <<epoch, firstRound>>, calcVotes(epoch, round).ownFirstRoundVotes),
        <<epoch, round>>, calcVotes(epoch, round).ownCurrentRoundVotes)

\* what calcVotes(epoch, round) asks of the activation database and of the
\* weak coin: the weight of the epoch, the coin of the first round and of the round
calcVotesLookups(epoch, round) ==
    [weightLookups |-> {epoch},
     coinQueries   |-> {<<epoch, firstRound>>, <<epoch, round>>}]

ownVotesNeverFound(lastRound) == FALSE

\* votes, ok := tb.ownVotes[lastRound]
ownVotesFound(lastRound) == Has(ownVotes, lastRound)

allHashesOfInvalidVotes(votes) == votes.InvalidVotes

\* for vote := range votes.ValidVotes { allHashes = append(allHashes, vote) }
allHashesOf(votes) == votes.ValidVotes

\* TestTortoiseBeacon_calcTortoiseBeaconHashList, "With Cache"
HashListTestVotes == Votes2({1, 2, 4, 5}, {3, 6})

\* mockDB.On("GetEpochWeight", ...).Return(uint64(10), nil, nil)
BeaconTestWeight == 10

OwnVotesInputs ==
    {EmptyMap,
     (<<OtherEpoch, lastPossibleRound>> :> Votes2({1}, {2})),
     (<<TestEpoch, firstRound>> :> Votes2({1}, {2})),
     (<<TestEpoch, lastPossibleRound>> :> HashListTestVotes)}
    \cup {(<<TestEpoch, lastPossibleRound>> :> votes) @@ (<<OtherEpoch, lastPossibleRound>> :> Votes2({1}, {2})) :
             votes \in DisjointVotes(Proposal)}

InitBeacon ==
    /\ validProposals = EmptyMap
    /\ potentiallyValidProposals = EmptyMap
    /\ incomingVotes \in {EmptyMap} \cup TestVotes
    /\ ownVotes \in OwnVotesInputs
    /\ weakCoin \in BOOLEAN
    /\ epochWeight \in (0..MaxWeight) \cup {BeaconTestWeight}
    /\ config \in {[Theta |-> 0], [Theta |-> Theta]}
    /\ NewRegistry
    /\ pc = "start"
    /\ arg = [epoch |-> TestEpoch]
    /\ ret = None

\* allHashes, err := tb.calcTortoiseBeaconHashList(epoch)
CalcTortoiseBeaconHashList ==
    /\ pc = "start"
    /\ LET lastRound == <<arg.epoch, lastPossibleRound>>
           ok == ownVotesFound(lastRound)
           votes == IF ok THEN ownVotes[lastRound]
                    ELSE calcVotes(arg.epoch, lastPossibleRound).ownCurrentRoundVotes
           lookups == IF ok THEN [weightLookups |-> {}, coinQueries |-> {}]
                      ELSE calcVotesLookups(arg.epoch, lastPossibleRound)
       IN  /\ ownVotes' = IF ok THEN ownVotes
                          ELSE Put(ownVotesAfterCalcVotes(arg.epoch, lastPossibleRound), lastRound, votes)
           /\ \E ranged \in Orders(allHashesOf(votes)) :
                 ret' = [recalculated  |-> ~ok,
                         weightLookups |-> lookups.weightLookups,
                         coinQueries   |-> lookups.coinQueries,
                         ranged        |-> ranged,
                         allHashes     |-> sortSlice(ranged)]
    /\ pc' = "hashList"
    /\ UNCHANGED <<validProposals, potentiallyValidProposals, incomingVotes,
                   weakCoin, epochWeight, config, registryFields, arg>>

NextBeacon == CalcTortoiseBeaconHashList

SpecBeacon == InitBeacon /\ [][NextBeacon]_vars

\* C10: the hash list holds exactly the valid own votes of the last round of
\* the epoch, none of the invalid ones, each once, in ascending order,
\* whatever the order the set was ranged over; the votes of the test give
\* 0x1, 0x2, 0x4, 0x5.
C10_HashListIsSortedOwnValidVotes ==
    pc = "hashList" =>
        LET votes == ownVotes[<<arg.epoch, lastPossibleRound>>]
        IN  /\ Range(ret.allHashes) = votes.ValidVotes
            /\ Range(ret.allHashes) \cap votes.InvalidVotes = {}
            /\ Len(ret.allHashes) = Cardinality(votes.ValidVotes)
            /\ IsAscending(ret.allHashes)
            /\ votes = HashListTestVotes => ret.allHashes = <<1, 2, 4, 5>>

\* the own votes of the last round were there, hold valid and invalid votes,
\* and were ranged over out of order
C10_Witness ==
    /\ pc = "hashList"
    /\ ~ret.recalculated
    /\ Len(ret.allHashes) >= 2
    /\ ~IsAscending(ret.ranged)
    /\ ownVotes[<<arg.epoch, lastPossibleRound>>].InvalidVotes # {}

\* the own votes of a round as a tally of the votes received says: every
\* voter once in every round up to it, by the sign of its record or else of
\* its first-round vote, and each proposal by the sign of its margin once
\* the margin reaches the threshold, by the coin below it
TallyAt(epoch, round, p) ==
    LET records == RecordsOf(epoch, firstRound, round)
    IN  WeightOfPairs({x \in records : VoteIn(epoch, x[1], x[2], p) = 1}, epoch)
        - WeightOfPairs({x \in records : VoteIn(epoch, x[1], x[2], p) = -1}, epoch)

TalliedValid(epoch, round) ==
    {p \in MentionedUpTo(epoch, round) :
        \/ TallyAt(epoch, round, p) >= config.Theta * epochWeight
        \/ TallyAt(epoch, round, p) > -(config.Theta * epochWeight) /\ weakCoin}

TalliedVotes(epoch, round) ==
    [ValidVotes   |-> TalliedValid(epoch, round),
     InvalidVotes |-> MentionedUpTo(epoch, round) \ TalliedValid(epoch, round)]

\* C11: a derivation that finds no own votes of the last round computes them
\* from the votes received in the rounds 1..K, records them as the own votes
\* of the last round and lists their valid votes; a derivation that finds
\* them lists their valid votes, leaves the own votes as they are and asks
\* neither for a weight nor for a coin.
C11_RecomputeOnlyWhenMissing ==
    [][(pc = "start" /\ pc' = "hashList") =>
          LET lastRound == <<arg.epoch, RoundsNumber>>
          IN  IF lastRound \in DOMAIN ownVotes
              THEN /\ ownVotes' = ownVotes
                   /\ ~ret'.recalculated
                   /\ ret'.weightLookups = {}
                   /\ ret'.coinQueries = {}
                   /\ Range(ret'.allHashes) = ownVotes[lastRound].ValidVotes
              ELSE /\ lastRound \in DOMAIN ownVotes'
                   /\ ownVotes'[lastRound] = TalliedVotes(arg.epoch, RoundsNumber)
                   /\ ret'.recalculated
                   /\ ret'.weightLookups # {}
                   /\ ret'.coinQueries # {}
                   /\ Range(ret'.allHashes) = TalliedVotes(arg.epoch, RoundsNumber).ValidVotes
                   /\ \A key \in DOMAIN ownVotes :
                         key[1] # arg.epoch => (key \in DOMAIN ownVotes' /\ ownVotes'[key] = ownVotes[key])]_vars

\* the own votes of the last round were missing and were computed from
\* three rounds of votes
C11_Witness ==
    /\ pc = "hashList"
    /\ ret.recalculated
    /\ incomingVotes = MarginTestVotes
    /\ Has(ownVotes, <<OtherEpoch, lastPossibleRound>>)
    /\ ownVotes[<<arg.epoch, lastPossibleRound>>].ValidVotes # {}
    /\ ownVotes[<<arg.epoch, lastPossibleRound>>].InvalidVotes # {}

C11_WitnessFound ==
    /\ pc = "hashList"
    /\ ~ret.recalculated
    /\ incomingVotes = MarginTestVotes
    /\ ownVotes[<<arg.epoch, lastPossibleRound>>] # TalliedVotes(arg.epoch, RoundsNumber)

\* the derivation of scenario S2: no own votes of the last round, the three
\* rounds of votes of the two voters, epoch weight 10
IsS2Derivation ==
    /\ pc = "hashList"
    /\ ret.recalculated
    /\ arg.epoch = TestEpoch
    /\ incomingVotes = MarginTestVotes
    /\ epochWeight = BeaconTestWeight

\* C12 as stated: with theta = 1 and W = 10 the hash list of S2 is
\* 0x1, 0x2, 0x4, 0x5.
C12_S2WithThetaOne ==
    (IsS2Derivation /\ config.Theta = 1) => ret.allHashes = <<1, 2, 4, 5>>

\* C12 amended: with theta = 0, as the test leaves it, and W = 10 the hash
\* list of S2 is 0x1, 0x2, 0x4, 0x5 under either coin; with theta = 1 the
\* threshold 10 is above every margin and the coin decides all six proposals.
C12_S2WithThetaZero ==
    /\ (IsS2Derivation /\ config.Theta = 0) => ret.allHashes = <<1, 2, 4, 5>>
    /\ (IsS2Derivation /\ config.Theta = 1) =>
          ret.allHashes = IF weakCoin THEN <<1, 2, 3, 4, 5, 6>> ELSE <<>>

C12_Witness ==
    /\ IsS2Derivation
    /\ config.Theta = 0
    /\ weakCoin
    /\ ret.allHashes = <<1, 2, 4, 5>>
    /\ ownVotes[<<TestEpoch, RoundsNumber>>] = HashListTestVotes

(***************************************************************************)
(* Epochs and layers.  types.EpochID and types.LayerID are unsigned 64-bit *)
(* integers; the only value above the epochs of the model that the program *)
(* computes is EpochID(0) - 1 = 2^64 - 1, written LastEpochID.  The node   *)
(* runs the protocol of one epoch after genesis, TestEpoch, in at most     *)
(* MaxRuns goroutines at a time.                                           *)
(***************************************************************************)
MaxRuns == 1
LayersPerEpoch == 3
cleanupEpochs == 1000
getBeaconAttempts == 50
LastEpochID == -1

\* layer.GetEpoch()
GetEpoch(layer) == layer \div LayersPerEpoch

\* layer.FirstInEpoch()
FirstInEpoch(layer) == layer % LayersPerEpoch = 0

\* epoch.IsGenesis(): the first two epochs
IsGenesis(epoch) == epoch # LastEpochID /\ epoch < 2

sameEpoch(epochID) == epochID

\* epochID - 1 of an unsigned integer
epochBefore(epochID) == IF epochID = 0 THEN LastEpochID ELSE epochID - 1

\* a - b > cleanupEpochs of unsigned integers: below b the difference wraps
\* to 2^64 - (b - a), far above cleanupEpochs
exceedsCleanupEpochs(a, b) == IF a >= b THEN a - b > cleanupEpochs ELSE TRUE

\* a layer of an epoch far enough for every epoch of the model to be outdated,
\* not the first of its epoch
FarLayer == (cleanupEpochs + TestEpoch + 1) * LayersPerEpoch + 1

\* the layers the clock ticks: the first layer of a genesis epoch, the first
\* and the second layer of TestEpoch, and FarLayer
Layers == {LayersPerEpoch, TestEpoch * LayersPerEpoch, TestEpoch * LayersPerEpoch + 1, FarLayer}

(***************************************************************************)
(* Beacons.  A Hash32 is a sequence: <<0>> is the all-zero hash, and the   *)
(* digest of a hash list keeps the list, so that two lists have the same   *)
(* digest only if they are equal.                                          *)
(***************************************************************************)
\* types.Hash32{}, the zero value
zeroHash == <<0>>

\* genesisBeacon = types.HexToHash32("0x00")
genesisBeacon == <<0>>

\* allHashes.Hash()
Hash(allHashes) == <<1>> \o allHashes

\* calcTortoiseBeaconHashList(epoch) as a function of the state: the own votes
\* it leaves and the list it returns (the list does not depend on the order
\* the votes are ranged over, C10)
calcTortoiseBeaconHashList(epoch) ==
    LET lastRound == <<epoch, lastPossibleRound>>
        ok == ownVotesFound(lastRound)
        votes == IF ok THEN ownVotes[lastRound]
                 ELSE calcVotes(epoch, lastPossibleRound).ownCurrentRoundVotes
    IN  [ownVotes  |-> IF ok THEN ownVotes
                       ELSE Put(ownVotesAfterCalcVotes(epoch, lastPossibleRound), lastRound, votes),
         allHashes |-> sortSlice(CHOOSE ranged \in Orders(allHashesOf(votes)) : TRUE)]

(***************************************************************************)
(* The running node: Start(), the layer listener, the goroutine of each    *)
(* epoch (handleEpoch), the cleanup loop, Close() and the readers of the   *)
(* registry.                                                               *)
(***************************************************************************)
\* Start() has returned: the listener and the cleanup loop run
listening == procs.start.pc = "listening"

startAt(pcName, epoch) == [procs EXCEPT !.start = [pc |-> pcName, epoch |-> epoch]]

setRun(i, r) == [procs EXCEPT !.runs = Put(@, i, r)]

endRun(i) == [procs EXCEPT !.runs = [j \in (DOMAIN @) \ {i} |-> @[j]]]

deleteAll(m, keys) == [k \in (DOMAIN m) \ keys |-> m[k]]

\* The specification of the round scheduler keeps two more fields in procs:
\* tasks, the goroutines runConsensusPhase spawns, and calls, the calls the
\* node has made on the activation database, the network and the weak coin,
\* each <<name, epoch, round, result>>.  p with the calls cs made
calling(p, cs) == IF "calls" \in DOMAIN p THEN [p EXCEPT !.calls = @ \cup cs] ELSE p

votesFields == <<validProposals, potentiallyValidProposals, incomingVotes, ownVotes,
                 weakCoin, epochWeight, config>>

reader == <<pc, arg, ret>>

\* initGenesisBeacons: tb.beacons[epoch] = genesisBeacon
InitGenesisBeacon ==
    /\ procs.start.pc \in {"new", "beacon"}
    /\ beacons' = Put(beacons, procs.start.epoch, genesisBeacon)
    /\ procs' = startAt("ready", procs.start.epoch)
    /\ UNCHANGED <<votesFields, beaconsReady, tortoiseBeaconDB, lastLayer, started, closed,
                   firstRoundOutcomingVotes, currentRounds, reader>>

\* initGenesisBeacons: tb.beaconsReady[epoch] = closedCh; epoch++
InitGenesisReady ==
    /\ procs.start.pc = "ready"
    /\ beaconsReady' = Put(beaconsReady, procs.start.epoch, "closed")
    /\ procs' = startAt(IF IsGenesis(procs.start.epoch + 1) THEN "beacon" ELSE "next",
                        procs.start.epoch + 1)
    /\ UNCHANGED <<votesFields, beacons, tortoiseBeaconDB, lastLayer, started, closed,
                   firstRoundOutcomingVotes, currentRounds, reader>>

\* initGenesisBeacons: tb.beaconsReady[epoch] = make(chan struct{}); Start()
\* then spawns listenLayers and cleanupLoop
InitNextReady ==
    /\ procs.start.pc = "next"
    /\ beaconsReady' = Put(beaconsReady, procs.start.epoch, "open")
    /\ procs' = startAt("listening", procs.start.epoch)
    /\ UNCHANGED <<votesFields, beacons, tortoiseBeaconDB, lastLayer, started, closed,
                   firstRoundOutcomingVotes, currentRounds, reader>>

\* the lowest id no running goroutine has
freeRun(i) == i \notin DOMAIN procs.runs /\ \A j \in 1..(i - 1) : j \in DOMAIN procs.runs

\* listenLayers: go tb.handleLayer(layer), and handleEpoch up to the start of
\* the proposal phase
HandleLayer(layer) ==
    /\ listening
    /\ ~closed
    /\ lastLayer' = IF layer > lastLayer THEN layer ELSE lastLayer
    /\ LET epoch == GetEpoch(layer)
       IN  IF FirstInEpoch(layer) /\ ~IsGenesis(epoch)
           THEN /\ started' = TRUE
                /\ beaconsReady' = IF Has(beaconsReady, epoch) THEN beaconsReady
                                   ELSE Put(beaconsReady, epoch, "open")
                /\ \E i \in 1..MaxRuns :
                      /\ freeRun(i)
                      /\ procs' = setRun(i, [epoch |-> epoch, pc |-> "proposal", round |-> firstRound])
           ELSE UNCHANGED <<started, beaconsReady, procs>>
    /\ UNCHANGED <<votesFields, beacons, tortoiseBeaconDB, closed, firstRoundOutcomingVotes, currentRounds, reader>>

\* tb.Closer.Close(); listenLayers then calls setStarted
Close ==
    /\ listening
    /\ ~closed
    /\ closed' = TRUE
    /\ started' = TRUE
    /\ UNCHANGED <<votesFields, beacons, beaconsReady, tortoiseBeaconDB, lastLayer,
                   firstRoundOutcomingVotes, currentRounds, procs, reader>>

\* lastEpoch - epoch > cleanupEpochs
epochIsOutdated(epoch) == exceedsCleanupEpochs(GetEpoch(lastLayer), epoch)

outdatedEpochs == {e \in DOMAIN beacons : epochIsOutdated(e)}

beaconsReadyKept(outdated) == beaconsReady

\* delete(tb.beaconsReady, e)
beaconsReadyAfterCleanup(outdated) == deleteAll(beaconsReady, outdated)

\* cleanupLoop: tb.cleanup()
Cleanup ==
    /\ listening
    /\ ~closed
    /\ outdatedEpochs # {}
    /\ beacons' = deleteAll(beacons, outdatedEpochs)
    /\ beaconsReady' = beaconsReadyAfterCleanup(outdatedEpochs)
    /\ UNCHANGED <<votesFields, tortoiseBeaconDB, lastLayer, started, closed,
                   firstRoundOutcomingVotes, currentRounds, procs, reader>>

\* calcProposalSignature(epoch): the signature of the node for the epoch
calcProposalSignature(epoch) == (epoch % NumProposals) + 1

\* the ways runProposalPhase goes: GetEpochWeight fails ("weight"), the
\* proposal is not below the threshold ("below"), the broadcast of the
\* proposal fails ("broadcast"), the proposal is sent ("passes")
ProposalOutcomes == {"weight", "below", "broadcast", "passes"}

\* the calls of runProposalPhase
runProposalPhaseCalls(epoch, outcome) ==
    {<<"GetEpochWeight", epoch, 0, IF outcome = "weight" THEN "error" ELSE "ok">>}
    \cup IF outcome \in {"broadcast", "passes"}
         THEN {<<"TBProposal", epoch, 0, IF outcome = "broadcast" THEN "error" ELSE "ok">>}
         ELSE {}

handleEpochGoesOn(i, outcome) == setRun(i, [procs.runs[i] EXCEPT !.pc = "round"])

handleEpochReturnsBelow(i, outcome) ==
    IF outcome = "passes" THEN setRun(i, [procs.runs[i] EXCEPT !.pc = "round"]) ELSE endRun(i)

\* handleEpoch: if err := tb.runProposalPhase(ctx, epoch); err != nil { return }
afterProposalPhase(i, outcome) ==
    IF outcome \in {"weight", "broadcast"} THEN endRun(i)
    ELSE setRun(i, [procs.runs[i] EXCEPT !.pc = "round"])

\* handleEpoch: tb.runProposalPhase(ctx, epoch).  An error ends handleEpoch;
\* a proposal below the eligibility threshold is not sent and not recorded; a
\* proposal that passes is sent and recorded as valid
RunProposalPhase(i) ==
    /\ Has(procs.runs, i)
    /\ procs.runs[i].pc = "proposal"
    /\ LET epoch == procs.runs[i].epoch
       IN  \E outcome \in ProposalOutcomes :
              /\ validProposals' =
                    IF outcome = "passes"
                    THEN Put(validProposals, epoch,
                             proposalsOf(validProposals, epoch) \cup {calcProposalSignature(epoch)})
                    ELSE validProposals
              /\ procs' = calling(afterProposalPhase(i, outcome),
                                  runProposalPhaseCalls(epoch, outcome))
    /\ UNCHANGED <<potentiallyValidProposals, incomingVotes, ownVotes, weakCoin, epochWeight,
                   config, beacons, beaconsReady, tortoiseBeaconDB, lastLayer, started, closed,
                   firstRoundOutcomingVotes, currentRounds, reader>>

\* runConsensusPhase: tb.sendVotes(ctx, epoch, round) of the rounds in turn.
\* The first round sends the votes calcVotesFromProposals gives; a following
\* round sends the votes calcVotes adopts and records
SendVotes(i) ==
    /\ Has(procs.runs, i)
    /\ procs.runs[i].pc = "round"
    /\ LET epoch == procs.runs[i].epoch
           round == procs.runs[i].round
       IN  /\ ownVotes' = IF round = firstRound THEN ownVotes
                          ELSE ownVotesAfterCalcVotes(epoch, round)
           /\ currentRounds' = Put(currentRounds, epoch, round)
           /\ procs' = IF round < lastPossibleRound
                       THEN setRun(i, [procs.runs[i] EXCEPT !.round = round + 1])
                       ELSE setRun(i, [procs.runs[i] EXCEPT !.pc = "calcBeacon"])
    /\ UNCHANGED <<validProposals, potentiallyValidProposals, incomingVotes, weakCoin,
                   epochWeight, config, beacons, beaconsReady, tortoiseBeaconDB, lastLayer,
                   started, closed, firstRoundOutcomingVotes, reader>>

\* runConsensusPhase: case <-tb.CloseChannel(): return nil
ConsensusClosed(i) ==
    /\ Has(procs.runs, i)
    /\ procs.runs[i].pc = "round"
    /\ procs.runs[i].round > firstRound
    /\ closed
    /\ procs' = setRun(i, [procs.runs[i] EXCEPT !.pc = "calcBeacon"])
    /\ UNCHANGED <<votesFields, beacons, beaconsReady, tortoiseBeaconDB, lastLayer, started,
                   closed, firstRoundOutcomingVotes, currentRounds, reader>>

hashListNeverFails(epoch, weight) == FALSE

\* allHashes, err := tb.calcTortoiseBeaconHashList(epoch) answers an error:
\* the own votes of the last round are not recorded and calcVotes, asked to
\* compute them, does not get the weight of the epoch for its threshold
hashListFails(epoch, weight) ==
    ~ownVotesFound(<<epoch, lastPossibleRound>>) /\ weight = "error"

\* what calcBeacon returns: the error of the hash list, the error of
\* syncBeacon, or nil
calcBeaconReturns(epoch, weight, result) ==
    IF hashListFails(epoch, weight) THEN "calc tortoise beacon hash list"
    ELSE IF result = "error" THEN "sync beacon"
    ELSE "nil"

\* the calls of calcBeacon: those of calcVotes when the own votes of the last
\* round are not recorded, the broadcast of the beacon when the hash list is
\* computed, and its return
calcBeaconCalls(epoch, weight, result) ==
    {<<"calcBeacon", epoch, 0, calcBeaconReturns(epoch, weight, result)>>}
    \cup (IF hashListFails(epoch, weight) THEN {}
          ELSE {<<"TBBeaconSync", epoch, 0, result>>})
    \cup (IF ownVotesFound(<<epoch, lastPossibleRound>>) THEN {}
          ELSE {<<"recalculate votes", epoch, lastPossibleRound, weight>>})
    \cup (IF ownVotesFound(<<epoch, lastPossibleRound>>) \/ weight = "error" THEN {}
          ELSE {<<"Get", c[1], c[2], "ok">> :
                   c \in calcVotesLookups(epoch, lastPossibleRound).coinQueries})

\* handleEpoch: tb.calcBeacon(ctx, epoch)
CalcBeacon(i) ==
    /\ Has(procs.runs, i)
    /\ procs.runs[i].pc = "calcBeacon"
    /\ LET epoch == procs.runs[i].epoch
           hashList == calcTortoiseBeaconHashList(epoch)
       IN  \E weight \in {"ok", "error"}, result \in {"ok", "error"} :
              /\ ownVotes' = IF hashListFails(epoch, weight) THEN ownVotes
                             ELSE hashList.ownVotes
              /\ beacons' = IF hashListFails(epoch, weight) THEN beacons
                            ELSE Put(beacons, epoch, Hash(hashList.allHashes))
              /\ procs' = calling(endRun(i), calcBeaconCalls(epoch, weight, result))
    /\ UNCHANGED <<validProposals, potentiallyValidProposals, incomingVotes, weakCoin,
                   epochWeight, config, beaconsReady, tortoiseBeaconDB, lastLayer, started,
                   closed, firstRoundOutcomingVotes, currentRounds, reader>>

\* the vote store after a voting message of the voter is put in it,
\* whatever it holds
incomingVotesOverwritten(epoch, round, pk, votes) ==
    Put(incomingVotes, <<epoch, round>>, Put(votesOf(epoch, round), pk, votes))

\* the handlers of voting messages: the votes of a voter for a round are
\* recorded once; a later message of the voter for the round is dropped
incomingVotesAfterVotingMessage(epoch, round, pk, votes) ==
    IF Has(votesOf(epoch, round), pk) THEN incomingVotes
    ELSE Put(incomingVotes, <<epoch, round>>, Put(votesOf(epoch, round), pk, votes))

\* the epochs whose messages the node handles
VotingEpochs == {TestEpoch}

\* the votes of the first voting messages the node receives
FirstVotingMessages == {Votes2({1}, {})}

\* a voting message is handled: votes is the votes of a first voting message,
\* or the votes decodeVotes reads in the bit vector of a following one
HandleVotingMessage(epoch, round, pk, votes) ==
    /\ listening
    /\ incomingVotes' = incomingVotesAfterVotingMessage(epoch, round, pk, votes)
    /\ pc' = "HandleVotingMessage"
    /\ arg' = [epoch |-> epoch, round |-> round, pk |-> pk, votes |-> votes]
    /\ UNCHANGED <<validProposals, potentiallyValidProposals, ownVotes, weakCoin, epochWeight,
                   config, registryFields, ret>>

HandleFirstVotingMessage(epoch, pk, votes) == HandleVotingMessage(epoch, firstRound, pk, votes)

HandleFollowingVotingMessage(epoch, round, pk, votes) ==
    /\ round > firstRound
    /\ HandleVotingMessage(epoch, round, pk, votes)

(***************************************************************************)
(* The readers of the registry.  ret is what the last call returned.       *)
(***************************************************************************)
noBeacon == <<>>

\* the epochs a caller asks for: the genesis epochs, the epoch after them,
\* TestEpoch and the epoch after it
ReadEpochs == {0, 1, 2, TestEpoch, TestEpoch + 1}

\* tb.tortoiseBeaconDB.GetTortoiseBeacon(epochID)
inDB(epochID) == ~tortoiseBeaconDB.isNil /\ Has(tortoiseBeaconDB.store, epochID)

\* tb.tortoiseBeaconDB.SetTortoiseBeacon(epochID, beacon), when the store takes it
setInDB(epochID, beacon) ==
    IF tortoiseBeaconDB.isNil THEN tortoiseBeaconDB
    ELSE [tortoiseBeaconDB EXCEPT !.store = Put(@, epochID, beacon)]

\* GetBeacon of tortoise_beacon.go.  The read lock is held from the first
\* look at tb.beacons to the return, so that no writer runs between the
\* attempts: the entry is there at the first attempt or at none
GetBeacon(epochID) ==
    /\ listening
    /\ pc = "start"
    /\ pc' = "GetBeacon"
    /\ arg' = [epoch |-> epochID]
    /\ IF inDB(epochID)
       THEN /\ ret' = [beacon |-> tortoiseBeaconDB.store[epochID], err |-> "nil", attempts |-> 0]
            /\ UNCHANGED tortoiseBeaconDB
       ELSE IF IsGenesis(epochBefore(epochID))
       THEN /\ ret' = [beacon |-> genesisBeacon, err |-> "nil", attempts |-> 0]
            /\ UNCHANGED tortoiseBeaconDB
       ELSE LET ok == Has(beacons, epochBefore(epochID))
                beacon == IF ok THEN beacons[epochBefore(epochID)] ELSE zeroHash
                attempts == IF ok THEN 1 ELSE getBeaconAttempts
            IN  \/ /\ tortoiseBeaconDB' = setInDB(epochID, beacon)
                   /\ ret' = [beacon |-> beacon, err |-> "nil", attempts |-> attempts]
                \/ /\ ~tortoiseBeaconDB.isNil
                   /\ UNCHANGED tortoiseBeaconDB
                   /\ ret' = [beacon |-> noBeacon, err |-> "update beacon in DB", attempts |-> attempts]
    /\ UNCHANGED <<votesFields, beacons, beaconsReady, lastLayer, started, closed,
                   firstRoundOutcomingVotes, currentRounds, procs>>

\* Get of tortoisebeacon.go
Get(epochID) ==
    /\ listening
    /\ pc = "start"
    /\ pc' = "Get"
    /\ arg' = [epoch |-> epochID]
    /\ IF inDB(epochID)
       THEN /\ ret' = [beacon |-> tortoiseBeaconDB.store[epochID], err |-> "nil"]
            /\ UNCHANGED tortoiseBeaconDB
       ELSE IF ~Has(beacons, epochID)
       THEN /\ ret' = [beacon |-> zeroHash, err |-> "ErrBeaconNotCalculated"]
            /\ UNCHANGED tortoiseBeaconDB
       ELSE \/ /\ tortoiseBeaconDB' = setInDB(epochID, beacons[epochID])
               /\ ret' = [beacon |-> beacons[epochID], err |-> "nil"]
            \/ /\ ~tortoiseBeaconDB.isNil
               /\ UNCHANGED tortoiseBeaconDB
               /\ ret' = [beacon |-> zeroHash, err |-> "update beacon in DB"]
    /\ UNCHANGED <<votesFields, beacons, beaconsReady, lastLayer, started, closed,
                   firstRoundOutcomingVotes, currentRounds, procs>>

\* Wait of tortoisebeacon.go, up to the select
Wait(epochID) ==
    /\ listening
    /\ pc = "start"
    /\ started \/ closed
    /\ IF inDB(epochID)
       THEN /\ pc' = "Wait"
            /\ arg' = [epoch |-> epochID]
            /\ ret' = [err |-> "nil"]
       ELSE IF ~Has(beaconsReady, epochID)
       THEN /\ pc' = "Wait"
            /\ arg' = [epoch |-> epochID]
            /\ ret' = [err |-> "ErrBeaconNotCalculated"]
       ELSE /\ pc' = "Wait.select"
            /\ arg' = [epoch |-> epochID, ready |-> beaconsReady[epochID]]
            /\ UNCHANGED ret
    /\ UNCHANGED <<votesFields, registryFields>>

\* Wait: select on the readiness channel, the close channel and the timer of
\* beaconCalcTimeout(); the channel of the epoch does not change once made
WaitSelect ==
    /\ pc = "Wait.select"
    /\ pc' = "Wait"
    /\ arg' = [epoch |-> arg.epoch]
    /\ \/ /\ arg.ready = "closed"
          /\ ret' = [err |-> "nil"]
       \/ /\ closed
          /\ ret' = [err |-> "nil"]
       \/ /\ arg.ready = "open"
          /\ ret' = [err |-> "ErrTimeout"]
    /\ UNCHANGED <<votesFields, registryFields>>

InitRegistry ==
    /\ validProposals = EmptyMap
    /\ potentiallyValidProposals = EmptyMap
    /\ incomingVotes = EmptyMap
    /\ ownVotes = EmptyMap
    /\ weakCoin = FALSE
    /\ epochWeight = 1
    /\ config = [Theta |-> Theta]
    /\ beacons = EmptyMap
    /\ beaconsReady = EmptyMap
    /\ tortoiseBeaconDB \in {[isNil |-> TRUE, store |-> EmptyMap], [isNil |-> FALSE, store |-> EmptyMap]}
    /\ lastLayer = 0
    /\ started = FALSE
    /\ closed = FALSE
    /\ firstRoundOutcomingVotes = EmptyMap
    /\ currentRounds = EmptyMap
    /\ procs = [start |-> [pc |-> "new", epoch |-> 0], runs |-> EmptyMap]
    /\ pc = "start"
    /\ arg = [epoch |-> 0]
    /\ ret = None

\* the caller takes what the call returned
Return ==
    /\ pc \in {"GetBeacon", "Get", "Wait"}
    /\ pc' = "start"
    /\ arg' = [epoch |-> 0]
    /\ ret' = None
    /\ UNCHANGED <<votesFields, registryFields>>

\* the node without the messages of the other nodes
NextNode ==
    \/ InitGenesisBeacon
    \/ InitGenesisReady
    \/ InitNextReady
    \/ \E layer \in Layers : HandleLayer(layer)
    \/ \E i \in 1..MaxRuns : RunProposalPhase(i)
    \/ \E i \in 1..MaxRuns : SendVotes(i)
    \/ \E i \in 1..MaxRuns : ConsensusClosed(i)
    \/ \E i \in 1..MaxRuns : CalcBeacon(i)
    \/ Cleanup
    \/ Close

NextRegistry ==
    \/ NextNode
    \/ \E epoch \in VotingEpochs, pk \in NodeIDs, votes \in FirstVotingMessages :
          HandleFirstVotingMessage(epoch, pk, votes)

SpecRegistry == InitRegistry /\ [][NextRegistry]_vars

\* the node and one caller of the registry; the state the caller is answered
\* from is the state of its call
NextReaders ==
    \/ pc \in {"start", "Wait.select"} /\ NextNode
    \/ \E epochID \in ReadEpochs : GetBeacon(epochID)
    \/ \E epochID \in ReadEpochs : Wait(epochID)
    \/ WaitSelect
    \/ Return

SpecReaders == InitRegistry /\ [][NextReaders]_vars

\* C13: GetBeacon of a genesis epoch, epoch 0 included, returns the all-zero
\* beacon at once: no error and no attempt on the registry, in every state of
\* the registry and of the store.
C13_GenesisBeaconImmediately ==
    (pc = "GetBeacon" /\ IsGenesis(arg.epoch)) =>
        /\ ret.beacon = genesisBeacon
        /\ ret.err = "nil"
        /\ ret.attempts = 0

\* a call of GetBeacon is answered
GetBeaconReturns == pc = "start" /\ pc' = "GetBeacon"

\* C14 as stated: when beacons[e] is recorded for a non-genesis epoch e and the
\* store has no entry for e, GetBeacon(e) returns beacons[e] (the store taking
\* what is saved in it).
C14_GetBeaconOfSameEpoch ==
    [][(/\ GetBeaconReturns
        /\ ~IsGenesis(arg'.epoch)
        /\ Has(beacons, arg'.epoch)
        /\ ~inDB(arg'.epoch)
        /\ ret'.err = "nil")
       => ret'.beacon = beacons[arg'.epoch]]_vars

\* C14, amended: when beacons[e - 1] is recorded for a non-genesis epoch e - 1
\* and the store has no entry for e, GetBeacon(e) finds beacons[e - 1] at its
\* first attempt and returns it, whatever is recorded for e, unless the store
\* fails to save it.
C14_GetBeaconOfEpochBefore ==
    [][(/\ GetBeaconReturns
        /\ arg'.epoch > 0
        /\ ~IsGenesis(arg'.epoch - 1)
        /\ Has(beacons, arg'.epoch - 1)
        /\ ~inDB(arg'.epoch))
       => \/ /\ ret'.err = "nil"
             /\ ret'.beacon = beacons[arg'.epoch - 1]
             /\ ret'.attempts = 1
          \/ /\ ret'.err = "update beacon in DB"
             /\ ~tortoiseBeaconDB.isNil
             /\ ret'.beacon = noBeacon]_vars

\* GetBeacon(TestEpoch + 1) has returned the beacon calcBeacon recorded for
\* TestEpoch
C14_Witness ==
    /\ pc = "GetBeacon"
    /\ arg.epoch = TestEpoch + 1
    /\ Has(beacons, TestEpoch)
    /\ ~Has(beacons, TestEpoch + 1)
    /\ beacons[TestEpoch] = Hash(<<>>)
    /\ ret = [beacon |-> beacons[TestEpoch], err |-> "nil", attempts |-> 1]

\* C15: when no beacon is calculated for a non-genesis epoch (none recorded
\* for the epoch nor for the epoch before it, none in the store) and none
\* becomes ready while the call waits, GetBeacon returns a failure and no
\* beacon value.
C15_GetBeaconSurfacesFailure ==
    [][(/\ GetBeaconReturns
        /\ arg'.epoch > 0
        /\ ~IsGenesis(arg'.epoch)
        /\ ~IsGenesis(arg'.epoch - 1)
        /\ ~Has(beacons, arg'.epoch)
        /\ ~Has(beacons, arg'.epoch - 1)
        /\ ~inDB(arg'.epoch))
       => /\ ret'.err # "nil"
          /\ ret'.beacon = noBeacon]_vars

C17_WriteOnce ==
    [][/\ \A e \in (DOMAIN beacons) \cap (DOMAIN beacons') : beacons'[e] = beacons[e]
       /\ \A e \in (DOMAIN beaconsReady) \cap (DOMAIN beaconsReady') :
             beaconsReady[e] = "closed" => beaconsReady'[e] = "closed"]_vars

(***************************************************************************)
(* The intake of voting messages: every voter sends, for every round,      *)
(* votes for or against proposal 1, any number of times.                   *)
(***************************************************************************)
IntakeVotes == {Votes2({1}, {}), Votes2({}, {1})}

NextIntake ==
    \/ InitGenesisBeacon
    \/ InitGenesisReady
    \/ InitNextReady
    \/ \E epoch \in VotingEpochs, pk \in NodeIDs, votes \in IntakeVotes :
          HandleFirstVotingMessage(epoch, pk, votes)
    \/ \E epoch \in VotingEpochs, round \in Rounds, pk \in NodeIDs, votes \in IntakeVotes :
          HandleFollowingVotingMessage(epoch, round, pk, votes)

SpecIntake == InitRegistry /\ [][NextIntake]_vars

\* the margins of the epoch after its last round, from the vote store
MarginsOf(epoch) == calcVotesMargin(epoch, lastPossibleRound, firstRoundVotes(epoch))

\* a step that handles a voting message other than the one handled before
HandlesVotingMessage == pc' = "HandleVotingMessage" /\ <<pc, arg>> # <<pc', arg'>>

\* C18: the vote store has one record for a voter, a round and an epoch: a
\* message of a voter with no record for the round is stored as its record,
\* a message of a voter that has one is dropped and leaves the vote store as
\* it was, and no step changes a record.  The margins are computed from the
\* vote store alone (MarginsOf), so that they are the margins of the first
\* messages and a dropped message leaves them as they were.
C18_OneRecordPerVoterPerRound ==
    [][/\ \A key \in DOMAIN incomingVotes : \A pk \in DOMAIN incomingVotes[key] :
             /\ key \in DOMAIN incomingVotes'
             /\ pk \in DOMAIN incomingVotes'[key]
             /\ incomingVotes'[key][pk] = incomingVotes[key][pk]
       /\ HandlesVotingMessage =>
             IF Has(votesOf(arg'.epoch, arg'.round), arg'.pk)
             THEN incomingVotes' = incomingVotes
             ELSE /\ incomingVotes'[<<arg'.epoch, arg'.round>>][arg'.pk] = arg'.votes
                  /\ \A key \in DOMAIN incomingVotes' : \A pk \in DOMAIN incomingVotes'[key] :
                        \/ <<key, pk>> = <<(<<arg'.epoch, arg'.round>>), arg'.pk>>
                        \/ key \in DOMAIN incomingVotes /\ pk \in DOMAIN incomingVotes[key]]_vars

\* pk1 has voted for proposal 1 in the first round and later sent a vote
\* against it, which was dropped: the margin of the proposal is 1
C18_Witness ==
    /\ pc = "HandleVotingMessage"
    /\ arg = [epoch |-> TestEpoch, round |-> firstRound, pk |-> "pk1", votes |-> Votes2({}, {1})]
    /\ incomingVotes = (<<TestEpoch, firstRound>> :> [pk1 |-> Votes2({1}, {})])
    /\ MarginsOf(TestEpoch) = (1 :> 1)

(***************************************************************************)
(* The intake of proposal messages.  A message carries the proposal of a   *)
(* node and is timely, delayed or late by the time it arrives.  The node's *)
(* own proposal reaches the other nodes when runProposalPhase sends it,    *)
(* and runProposalPhase records it before its proposal phase ends, while   *)
(* an arrival is still timely: sending and recording are one step.         *)
(***************************************************************************)
knownProposal(epoch, p) ==
    p \in proposalsOf(validProposals, epoch) \cup proposalsOf(potentiallyValidProposals, epoch)

\* a timely proposal the node does not have is put in the valid set
validProposalsAfterMessage(epoch, p, class) ==
    IF class = "timely" /\ ~knownProposal(epoch, p)
    THEN Put(validProposals, epoch, proposalsOf(validProposals, epoch) \cup {p})
    ELSE validProposals

potentiallyValidProposalsOfClass(epoch, p, class) ==
    IF class = "delayed"
    THEN Put(potentiallyValidProposals, epoch, proposalsOf(potentiallyValidProposals, epoch) \cup {p})
    ELSE potentiallyValidProposals

\* a delayed proposal the node does not have is put in the potentially valid
\* set
potentiallyValidProposalsAfterMessage(epoch, p, class) ==
    IF class = "delayed" /\ ~knownProposal(epoch, p)
    THEN Put(potentiallyValidProposals, epoch, proposalsOf(potentiallyValidProposals, epoch) \cup {p})
    ELSE potentiallyValidProposals

\* the proposals of the messages the node receives: its own and another one
ProposalMessages == {1, calcProposalSignature(TestEpoch)}

\* the node's own proposal is known to the other nodes once it has sent it
sentProposal(epoch, p) ==
    p = calcProposalSignature(epoch) => p \in proposalsOf(validProposals, epoch)

HandleProposalMessage(epoch, p, class) ==
    /\ listening
    /\ sentProposal(epoch, p)
    /\ validProposals' = validProposalsAfterMessage(epoch, p, class)
    /\ potentiallyValidProposals' = potentiallyValidProposalsAfterMessage(epoch, p, class)
    /\ UNCHANGED <<incomingVotes, ownVotes, weakCoin, epochWeight, config, registryFields, reader>>

NextProposalIntake ==
    \/ NextNode
    \/ \E epoch \in VotingEpochs, p \in ProposalMessages, class \in {"timely", "delayed", "late"} :
          HandleProposalMessage(epoch, p, class)

SpecProposalIntake == InitRegistry /\ [][NextProposalIntake]_vars

SendsFirstRoundVote(i) ==
    /\ Has(procs.runs, i)
    /\ procs.runs[i].pc = "round"
    /\ procs.runs[i].round = firstRound
    /\ Has(procs'.runs, i)
    /\ procs'.runs[i].round = firstRound + 1

\* C20: the step that sends the first-round vote of an epoch sets
\* firstRoundOutcomingVotes[epoch], the value the bit vectors of rounds 2..K
\* are encoded against, and no step changes it once it is set.
C20_FirstRoundOutcomingVotesFrozen ==
    [][/\ \A i \in 1..MaxRuns :
              SendsFirstRoundVote(i) => Has(firstRoundOutcomingVotes', procs.runs[i].epoch)
       /\ \A epoch \in DOMAIN firstRoundOutcomingVotes :
              /\ Has(firstRoundOutcomingVotes', epoch)
              /\ firstRoundOutcomingVotes'[epoch] = firstRoundOutcomingVotes[epoch]]_vars

(***************************************************************************)
(* The round scheduler.  runConsensusPhase spawns a goroutine that sends   *)
(* the votes of the first round, and at each tick of its ticker a          *)
(* goroutine that sends the votes of the next round and one that publishes *)
(* the weak coin proposal of the round; then it waits three rounds and     *)
(* returns, and handleEpoch calls calcBeacon.  A goroutine is a record of  *)
(* procs.tasks; goroutines with the same arguments at the same place are   *)
(* one record.  A timer is taken to fire only while the node is not closed:*)
(* a select that waits on a timer and on the close channel is woken by the *)
(* one that comes first.                                                   *)
(***************************************************************************)
\* go func(epoch, round) { OnRoundFinished(epoch, round-1); sendVotes(epoch, round) }
votesTask(epoch, round) ==
    [kind |-> "votes", epoch |-> epoch, round |-> round,
     pc |-> IF round > firstRound + 1 THEN "OnRoundFinished" ELSE "sendVotes"]

\* go func(epoch, round) { select on the timer; OnRoundStarted; PublishProposal }
coinTask(epoch, round) ==
    [kind |-> "coin", epoch |-> epoch, round |-> round, pc |-> "timer"]

\* the goroutines runConsensusPhase spawns for a round
roundTasks(epoch, round) ==
    {votesTask(epoch, round)}
    \cup IF round > firstRound THEN {coinTask(epoch, round)} ELSE {}

endTask(t) == [procs EXCEPT !.tasks = @ \ {t}]

moveTask(t, pcName) == [procs EXCEPT !.tasks = (@ \ {t}) \cup {[t EXCEPT !.pc = pcName]}]

skipsTheWait(run) ==
    IF run.round < lastPossibleRound THEN [run EXCEPT !.round = run.round + 1]
    ELSE [run EXCEPT !.pc = "calcBeacon"]

\* for round := firstRound + 1; round <= tb.lastPossibleRound(); round++, then
\* tb.waitAfterLastRoundStarted()
afterRoundStarted(run) ==
    IF run.round < lastPossibleRound THEN [run EXCEPT !.round = run.round + 1]
    ELSE [run EXCEPT !.pc = "waitAfterLastRoundStarted"]

\* runConsensusPhase starts a round: the first one at once, a following one
\* at case <-ticker.C
StartRound(i) ==
    /\ Has(procs.runs, i)
    /\ procs.runs[i].pc = "round"
    /\ procs.runs[i].round > firstRound => ~closed
    /\ procs' = [setRun(i, afterRoundStarted(procs.runs[i])) EXCEPT
                    !.tasks = @ \cup roundTasks(procs.runs[i].epoch, procs.runs[i].round)]
    /\ UNCHANGED <<votesFields, beacons, beaconsReady, tortoiseBeaconDB, lastLayer, started,
                   closed, firstRoundOutcomingVotes, currentRounds, reader>>

\* runConsensusPhase: tb.waitAfterLastRoundStarted(), which the timer or the
\* close channel ends, and tb.weakCoin.OnRoundFinished(epoch, lastPossibleRound)
WaitAfterLastRoundStarted(i) ==
    /\ Has(procs.runs, i)
    /\ procs.runs[i].pc = "waitAfterLastRoundStarted"
    /\ procs' = calling(setRun(i, [procs.runs[i] EXCEPT !.pc = "calcBeacon"]),
                        {<<"OnRoundFinished", procs.runs[i].epoch, lastPossibleRound, "ok">>})
    /\ UNCHANGED <<votesFields, beacons, beaconsReady, tortoiseBeaconDB, lastLayer, started,
                   closed, firstRoundOutcomingVotes, currentRounds, reader>>

\* the goroutine of the votes of a round above the second:
\* tb.weakCoin.OnRoundFinished(epoch, round-1)
VotesRoundFinished(t) ==
    /\ t.kind = "votes"
    /\ t.pc = "OnRoundFinished"
    /\ procs' = calling(moveTask(t, "sendVotes"),
                        {<<"OnRoundFinished", t.epoch, t.round - 1, "ok">>})
    /\ UNCHANGED <<votesFields, beacons, beaconsReady, tortoiseBeaconDB, lastLayer, started,
                   closed, firstRoundOutcomingVotes, currentRounds, reader>>

\* the calls of sendVotes(epoch, round): the first round broadcasts the votes
\* calcVotesFromProposals gives, a following round asks calcVotes for its
\* votes and broadcasts them
sendVotesCalls(epoch, round, result) ==
    IF round = firstRound THEN {<<"TBFirstVoting", epoch, round, result>>}
    ELSE {<<"Get", c[1], c[2], "ok">> : c \in calcVotesLookups(epoch, round).coinQueries}
         \cup {<<"TBFollowingVoting", epoch, round, result>>}

\* the goroutine of the votes of a round: tb.sendVotes(ctx, epoch, round); a
\* broadcast that fails is logged
VotesSend(t) ==
    /\ t.kind = "votes"
    /\ t.pc = "sendVotes"
    /\ currentRounds' = Put(currentRounds, t.epoch, t.round)
    /\ ownVotes' = IF t.round = firstRound THEN ownVotes
                   ELSE ownVotesAfterCalcVotes(t.epoch, t.round)
    /\ \E result \in {"ok", "error"} :
          procs' = calling(endTask(t), sendVotesCalls(t.epoch, t.round, result))
    /\ UNCHANGED <<validProposals, potentiallyValidProposals, incomingVotes, weakCoin,
                   epochWeight, config, beacons, beaconsReady, tortoiseBeaconDB, lastLayer,
                   started, closed, firstRoundOutcomingVotes, reader>>

coinCallSwapped(pcName) == IF pcName = "timer" THEN "PublishProposal" ELSE "OnRoundStarted"

\* the call the goroutine of the coin makes next: OnRoundStarted when its
\* timer fires, then PublishProposal
coinCall(pcName) == IF pcName = "timer" THEN "OnRoundStarted" ELSE "PublishProposal"

\* the goroutine of the coin of a round: case <-t.C, and
\* tb.weakCoin.OnRoundStarted(epoch, round)
CoinRoundStarted(t) ==
    /\ t.kind = "coin"
    /\ t.pc = "timer"
    /\ ~closed
    /\ procs' = calling(moveTask(t, "PublishProposal"),
                        {<<coinCall(t.pc), t.epoch, t.round, "ok">>})
    /\ UNCHANGED <<votesFields, beacons, beaconsReady, tortoiseBeaconDB, lastLayer, started,
                   closed, firstRoundOutcomingVotes, currentRounds, reader>>

\* the goroutine of the coin of a round: case <-tb.CloseChannel(): return
CoinClosed(t) ==
    /\ t.kind = "coin"
    /\ t.pc = "timer"
    /\ closed
    /\ procs' = endTask(t)
    /\ UNCHANGED <<votesFields, beacons, beaconsReady, tortoiseBeaconDB, lastLayer, started,
                   closed, firstRoundOutcomingVotes, currentRounds, reader>>

\* the goroutine of the coin of a round:
\* tb.weakCoin.PublishProposal(ctx, epoch, round)
CoinPublishProposal(t) ==
    /\ t.kind = "coin"
    /\ t.pc = "PublishProposal"
    /\ procs' = calling(endTask(t), {<<coinCall(t.pc), t.epoch, t.round, "ok">>})
    /\ UNCHANGED <<votesFields, beacons, beaconsReady, tortoiseBeaconDB, lastLayer, started,
                   closed, firstRoundOutcomingVotes, currentRounds, reader>>

\* the layers the clock ticks in the specification of the scheduler, each
\* once and in order: the first layer of a genesis epoch and the first layer
\* of TestEpoch
SchedulerLayers == {LayersPerEpoch, TestEpoch * LayersPerEpoch}

\* the node as New() builds it, without a store, no goroutine running and no
\* call made
InitScheduler ==
    /\ validProposals = EmptyMap
    /\ potentiallyValidProposals = EmptyMap
    /\ incomingVotes = EmptyMap
    /\ ownVotes = EmptyMap
    /\ weakCoin = FALSE
    /\ epochWeight = 1
    /\ config = [Theta |-> 1]
    /\ beacons = EmptyMap
    /\ beaconsReady = EmptyMap
    /\ tortoiseBeaconDB = [isNil |-> TRUE, store |-> EmptyMap]
    /\ lastLayer = 0
    /\ started = FALSE
    /\ closed = FALSE
    /\ firstRoundOutcomingVotes = EmptyMap
    /\ currentRounds = EmptyMap
    /\ procs = [start |-> [pc |-> "new", epoch |-> 0], runs |-> EmptyMap,
                tasks |-> {}, calls |-> {}]
    /\ pc = "start"
    /\ arg = [epoch |-> 0]
    /\ ret = None

NextScheduler ==
    \/ InitGenesisBeacon
    \/ InitGenesisReady
    \/ InitNextReady
    \/ \E layer \in SchedulerLayers : layer > lastLayer /\ HandleLayer(layer)
    \/ \E i \in 1..MaxRuns : RunProposalPhase(i)
    \/ \E i \in 1..MaxRuns : StartRound(i)
    \/ \E i \in 1..MaxRuns : ConsensusClosed(i)
    \/ \E i \in 1..MaxRuns : WaitAfterLastRoundStarted(i)
    \/ \E i \in 1..MaxRuns : CalcBeacon(i)
    \/ \E t \in procs.tasks : VotesRoundFinished(t)
    \/ \E t \in procs.tasks : VotesSend(t)
    \/ \E t \in procs.tasks : CoinRoundStarted(t)
    \/ \E t \in procs.tasks : CoinClosed(t)
    \/ \E t \in procs.tasks : CoinPublishProposal(t)
    \/ Close

SpecScheduler == InitScheduler /\ [][NextScheduler]_vars

\* the calls made in a step
newCalls == procs'.calls \ procs.calls

\* the goroutines spawned in a step to send the votes of a round
newVotesTasks == {t \in procs'.tasks \ procs.tasks : t = votesTask(t.epoch, t.round)}

\* handleEpoch of run i goes from a to b in a step in the order of the
\* pipeline
PipelineStep(a, b) ==
    \/ /\ a.pc = "proposal"
       /\ b = [a EXCEPT !.pc = "round"]
       /\ a.round = firstRound
       /\ newVotesTasks = {}
    \/ /\ a.pc = "round"
       /\ a.round < lastPossibleRound
       /\ b = [a EXCEPT !.round = a.round + 1]
       /\ newVotesTasks = {votesTask(a.epoch, a.round)}
    \/ /\ a.pc = "round"
       /\ a.round = lastPossibleRound
       /\ b = [a EXCEPT !.pc = "waitAfterLastRoundStarted"]
       /\ newVotesTasks = {votesTask(a.epoch, a.round)}
    \/ /\ a.pc = "waitAfterLastRoundStarted"
       /\ b = [a EXCEPT !.pc = "calcBeacon"]
       /\ <<"OnRoundFinished", a.epoch, lastPossibleRound, "ok">> \in procs'.calls
       /\ newVotesTasks = {}
    \/ /\ closed
       /\ a.pc = "round"
       /\ b = [a EXCEPT !.pc = "calcBeacon"]
       /\ newVotesTasks = {}

\* C21: handleEpoch of an epoch starts in the proposal phase, starts the vote
\* of the rounds 1..K once each and in increasing order and of no other
\* round, waits after the last round, and only then, unless the node is
\* closed, derives the beacon; a vote is started and a beacon of an epoch
\* after genesis is written by no other step.
C21_PipelineOrder ==
    [][/\ \A i \in 1..MaxRuns :
             /\ (~Has(procs.runs, i) /\ Has(procs'.runs, i)) =>
                   /\ procs'.runs[i].pc = "proposal"
                   /\ ~IsGenesis(procs'.runs[i].epoch)
             /\ (Has(procs.runs, i) /\ Has(procs'.runs, i) /\ procs'.runs[i] # procs.runs[i]) =>
                   PipelineStep(procs.runs[i], procs'.runs[i])
       /\ newVotesTasks # {} =>
             \E i \in DOMAIN procs.runs :
                /\ Has(procs'.runs, i)
                /\ procs'.runs[i] # procs.runs[i]
                /\ procs.runs[i].round \in firstRound..lastPossibleRound
       /\ \A epoch \in DOMAIN beacons' :
             (~IsGenesis(epoch) /\ (~Has(beacons, epoch) \/ beacons'[epoch] # beacons[epoch])) =>
                \E i \in DOMAIN procs.runs :
                   /\ procs.runs[i].epoch = epoch
                   /\ procs.runs[i].pc = "calcBeacon"
                   /\ closed \/ procs.runs[i].round = lastPossibleRound
                   /\ ~Has(procs'.runs, i)]_vars

\* handleEpoch is about to derive the beacon of an epoch: the node is not
\* closed, the wait after the last round has ended, and the votes of the
\* three rounds are sent
C21_Witness ==
    /\ ~closed
    /\ \E i \in DOMAIN procs.runs :
          procs.runs[i] = [epoch |-> TestEpoch, pc |-> "calcBeacon", round |-> lastPossibleRound]
    /\ <<"OnRoundFinished", TestEpoch, lastPossibleRound, "ok">> \in procs.calls
    /\ <<"TBFirstVoting", TestEpoch, firstRound, "ok">> \in procs.calls
    /\ \A round \in (firstRound + 1)..lastPossibleRound :
          <<"TBFollowingVoting", TestEpoch, round, "ok">> \in procs.calls

\* C22: once the node is closed no step writes a beacon: a handleEpoch that
\* the close signal finds before it has derived the beacon returns without
\* writing beacons[epoch].
C22_NoBeaconAfterClose ==
    [][closed => beacons' = beacons]_vars

\* C23: if the weight lookup of the proposal phase of an epoch failed, the
\* node has made no other call for the epoch (no proposal, no vote, no coin,
\* no beacon broadcast), no goroutine of the epoch runs, handleEpoch has
\* returned, the epoch has no beacon, no valid proposal and no closed
\* readiness channel, and the genesis beacons are as Start() left them.
C23_WeightUnavailableAborts ==
    \A epoch \in VotingEpochs :
       (/\ <<"GetEpochWeight", epoch, 0, "error">> \in procs.calls
        /\ <<"GetEpochWeight", epoch, 0, "ok">> \notin procs.calls) =>
          /\ \A c \in procs.calls : c[2] = epoch => c[1] = "GetEpochWeight"
          /\ \A t \in procs.tasks : t.epoch # epoch
          /\ \A i \in DOMAIN procs.runs : procs.runs[i].epoch # epoch
          /\ ~Has(beacons, epoch)
          /\ ~Has(validProposals, epoch)
          /\ Has(beaconsReady, epoch) => beaconsReady[epoch] = "open"
          /\ \A genesis \in {0, 1} : Has(beacons, genesis) /\ beacons[genesis] = genesisBeacon

\* the weight lookup of TestEpoch has failed
C23_Witness ==
    /\ <<"GetEpochWeight", TestEpoch, 0, "error">> \in procs.calls
    /\ procs.runs = EmptyMap
    /\ lastLayer = TestEpoch * LayersPerEpoch

\* C24: while the node has sent no proposal for an epoch, its own proposal is
\* not in the valid proposals of the epoch; and the step of the proposal
\* phase that finds the weight and sends nothing (the proposal is not below
\* the threshold) leaves the valid proposals as they are and takes
\* handleEpoch to the first voting round.
C24_EligibilityFailedGoesOn ==
    /\ [](\A epoch \in VotingEpochs :
             (\A c \in procs.calls : ~(c[1] = "TBProposal" /\ c[2] = epoch)) =>
                calcProposalSignature(epoch) \notin proposalsOf(validProposals, epoch))
    /\ [][\A i \in DOMAIN procs.runs :
             (/\ procs.runs[i].pc = "proposal"
              /\ newCalls = {<<"GetEpochWeight", procs.runs[i].epoch, 0, "ok">>}) =>
                /\ validProposals' = validProposals
                /\ Has(procs'.runs, i)
                /\ procs'.runs[i] = [procs.runs[i] EXCEPT !.pc = "round"]]_vars

\* the node has sent no proposal for TestEpoch, has sent the votes of the
\* three rounds and has derived the beacon
C24_Witness ==
    /\ \A c \in procs.calls : c[1] # "TBProposal"
    /\ <<"TBFirstVoting", TestEpoch, firstRound, "ok">> \in procs.calls
    /\ \A round \in (firstRound + 1)..lastPossibleRound :
          <<"TBFollowingVoting", TestEpoch, round, "ok">> \in procs.calls
    /\ <<"OnRoundFinished", TestEpoch, lastPossibleRound, "ok">> \in procs.calls
    /\ ~closed
    /\ Has(beacons, TestEpoch)
    /\ ~Has(validProposals, TestEpoch)

\* C25: the step of the proposal phase in which the broadcast of the proposal
\* fails leaves handleEpoch running, to go on with the voting rounds.
C25_BroadcastFailureGoesOn ==
    [][\A i \in DOMAIN procs.runs :
          (/\ procs.runs[i].pc = "proposal"
           /\ <<"TBProposal", procs.runs[i].epoch, 0, "error">> \in newCalls) =>
             Has(procs'.runs, i)]_vars

\* C26: a step calls PublishProposal(epoch, round) only if
\* OnRoundStarted(epoch, round) was called before, and no step calls
\* OnRoundStarted once the node is closed, so that neither is called for a
\* round whose coin timer had not fired when the node was closed.
C26_CoinStartOrder ==
    [][\A c \in newCalls :
          /\ c[1] = "PublishProposal" => <<"OnRoundStarted", c[2], c[3], "ok">> \in procs.calls
          /\ c[1] = "OnRoundStarted" => ~closed]_vars

\* the coin proposal of the second round is published, and the node was
\* closed before the coin timer of the third round fired: its goroutine has
\* returned and has made no call
C26_Witness ==
    /\ <<"OnRoundStarted", TestEpoch, firstRound + 1, "ok">> \in procs.calls
    /\ <<"PublishProposal", TestEpoch, firstRound + 1, "ok">> \in procs.calls
    /\ closed
    /\ <<"TBFollowingVoting", TestEpoch, lastPossibleRound, "ok">> \in procs.calls
    /\ procs.tasks = {}
    /\ \A c \in procs.calls : c[3] = lastPossibleRound => c[1] \notin {"OnRoundStarted", "PublishProposal"}

\* C27: a step calls weakCoin.Get(epoch, round) only if
\* weakCoin.OnRoundFinished(epoch, round) was called before.
C27_GetAfterRoundFinished ==
    [][\A c \in newCalls :
          c[1] = "Get" => <<"OnRoundFinished", c[2], c[3], "ok">> \in procs.calls]_vars


(***************************************************************************)
(* Cleanup.                                                                *)
(***************************************************************************)
\* the epochs a step deletes the beacon of
deletedBeacons == DOMAIN beacons \ DOMAIN beacons'

\* C28: a cleanup pass deletes the beacon of the epochs that are more than
\* cleanupEpochs behind the current epoch, the difference taken as integers,
\* and of no other epoch: never of an epoch within the window, of the
\* current epoch or of an epoch ahead of it
C28_CleanupWindow ==
    [][/\ \A e \in deletedBeacons : GetEpoch(lastLayer) - e > cleanupEpochs
       /\ deletedBeacons # {} =>
             \A e \in DOMAIN beacons' : ~(GetEpoch(lastLayer) - e > cleanupEpochs)]_vars

\* the epochs a store of the node holds an entry of
storedEpochs ==
    DOMAIN validProposals \cup DOMAIN potentiallyValidProposals
        \cup {k[1] : k \in DOMAIN incomingVotes} \cup {k[1] : k \in DOMAIN ownVotes}
        \cup DOMAIN firstRoundOutcomingVotes \cup DOMAIN currentRounds \cup DOMAIN beacons

\* C29: after a cleanup pass no store of the node (proposals, incoming
\* votes, first round votes, own votes, beacon) holds an entry of an epoch
\* more than cleanupEpochs behind the current epoch
C29_AllStoresCollected ==
    [][deletedBeacons # {} =>
          \A e \in storedEpochs' : ~(GetEpoch(lastLayer) - e > cleanupEpochs)]_vars

(***************************************************************************)
(* The layer clock.  listenLayers starts a goroutine for each tick it      *)
(* receives and does not wait for it; at most MaxPipelines of them run at  *)
(* a time in the model.                                                    *)
(***************************************************************************)
MaxPipelines == 2

\* the ticks of the clock, in any order and any number of times: the first
\* layer of a genesis epoch, the first and the second layer of TestEpoch and
\* the first layer of the epoch after it
LayerTicks ==
    {LayersPerEpoch, TestEpoch * LayersPerEpoch, TestEpoch * LayersPerEpoch + 1,
     (TestEpoch + 1) * LayersPerEpoch}

ListenLayersEveryLayer(layer) ==
    /\ listening
    /\ ~closed
    /\ lastLayer' = IF layer > lastLayer THEN layer ELSE lastLayer
    /\ \E i \in 1..MaxPipelines :
          /\ freeRun(i)
          /\ procs' = setRun(i, [epoch |-> GetEpoch(layer), pc |-> "proposal", round |-> firstRound])
    /\ UNCHANGED <<validProposals, potentiallyValidProposals, incomingVotes, ownVotes,
                   weakCoin, epochWeight, config, beacons, beaconsReady, tortoiseBeaconDB,
                   started, closed, firstRoundOutcomingVotes, currentRounds, pc, arg, ret>>

\* listenLayers: go tb.handleLayer(ctx, layer), and handleLayer and
\* handleEpoch up to the start of the proposal phase
ListenLayers(layer) ==
    /\ listening
    /\ ~closed
    /\ lastLayer' = IF layer > lastLayer THEN layer ELSE lastLayer
    /\ LET epoch == GetEpoch(layer)
       IN  IF FirstInEpoch(layer) /\ ~IsGenesis(epoch)
           THEN \E i \in 1..MaxPipelines :
                   /\ freeRun(i)
                   /\ procs' = setRun(i, [epoch |-> epoch, pc |-> "proposal", round |-> firstRound])
           ELSE UNCHANGED procs
    /\ UNCHANGED <<votesFields, beacons, beaconsReady, tortoiseBeaconDB, started, closed,
                   firstRoundOutcomingVotes, currentRounds, reader>>

NextLayers ==
    \/ InitGenesisBeacon
    \/ InitGenesisReady
    \/ InitNextReady
    \/ \E layer \in LayerTicks : ListenLayers(layer)
    \/ \E i \in 1..MaxPipelines : RunProposalPhase(i)
    \/ \E i \in 1..MaxPipelines : SendVotes(i)
    \/ \E i \in 1..MaxPipelines : ConsensusClosed(i)
    \/ \E i \in 1..MaxPipelines : CalcBeacon(i)
    \/ Close

SpecLayers == InitRegistry /\ [][NextLayers]_vars

\* C30: at most one run of handleEpoch, from the proposal phase to the
\* derivation of the beacon, is under way
C30_OneEpochScheduler == Cardinality(DOMAIN procs.runs) <= 1

(***************************************************************************)
(* The own votes as a partition.                                           *)
(***************************************************************************)
\* C38: the own votes computed from a margin map, for every threshold and
\* coin, have ValidVotes and InvalidVotes disjoint and their union equal to
\* the proposals of the margin map.
C38_OwnVotesPartition ==
    HasAdopted =>
        /\ Adopted.ValidVotes \cap Adopted.InvalidVotes = {}
        /\ Adopted.ValidVotes \cup Adopted.InvalidVotes = DOMAIN AdoptedFrom

\* the margin map of TestTortoiseBeacon_calcOwnCurrentRoundVotes with the
\* coin false: 0x1 above the threshold is valid, 0x2 below minus the
\* threshold and 0x3 below the threshold are invalid
C38_Witness ==
    /\ pc = "ownCurrentRound"
    /\ arg.votesMargin = CurrentRoundTestMargin
    /\ Theta * epochWeight = CurrentRoundTestThreshold
    /\ ~weakCoin
    /\ ret.ownCurrentRoundVotes = [ValidVotes |-> {1}, InvalidVotes |-> {2, 3}]

(***************************************************************************)
(* The ticks that start an epoch.                                          *)
(***************************************************************************)
\* the runs of handleEpoch a step starts
newRuns == {procs'.runs[i] : i \in DOMAIN procs'.runs \ DOMAIN procs.runs}

\* C40: a tick of a layer starts a run of handleEpoch, in the proposal phase
\* of the epoch of the layer, iff the layer is the first of its epoch and the
\* epoch is not one of the two genesis epochs; every tick leaves lastLayer at
\* the highest layer received and every store of the node as it was, and a
\* tick that starts no run changes nothing else.
C40_TicksThatStartAnEpoch ==
    [][\A layer \in LayerTicks : ListenLayers(layer) =>
          /\ lastLayer' >= lastLayer /\ lastLayer' >= layer /\ lastLayer' \in {lastLayer, layer}
          /\ IF layer % LayersPerEpoch = 0 /\ layer \div LayersPerEpoch >= 2
             THEN newRuns = {[epoch |-> layer \div LayersPerEpoch, pc |-> "proposal",
                              round |-> firstRound]}
             ELSE procs' = procs
          /\ UNCHANGED <<votesFields, beacons, beaconsReady, tortoiseBeaconDB,
                         firstRoundOutcomingVotes, currentRounds>>]_vars

\* the first layer of TestEpoch has started a run, the second layer of
\* TestEpoch has been received and has started none
C40_Witness ==
    /\ lastLayer = TestEpoch * LayersPerEpoch + 1
    /\ DOMAIN procs.runs = {1}
    /\ procs.runs[1] = [epoch |-> TestEpoch, pc |-> "proposal", round |-> firstRound]

(***************************************************************************)
(* The errors of calcBeacon.                                               *)
(***************************************************************************)
\* C39: when the hash list fails, the votes of the last round being
\* recomputed without the weight of the epoch, calcBeacon returns the error
\* and leaves beacons as it was; when the hash list is computed and the
\* broadcast of the beacon fails, calcBeacon returns the error and
\* beacons[epoch] holds the beacon of the list.
C39_CalcBeaconErrors ==
    [][\A i \in DOMAIN procs.runs :
          (procs.runs[i].pc = "calcBeacon" /\ ~Has(procs'.runs, i)) =>
             LET epoch == procs.runs[i].epoch
                 list == calcTortoiseBeaconHashList(epoch).allHashes
             IN  /\ <<"recalculate votes", epoch, lastPossibleRound, "error">> \in newCalls =>
                       /\ <<"calcBeacon", epoch, 0, "calc tortoise beacon hash list">> \in newCalls
                       /\ <<"TBBeaconSync", epoch, 0, "ok">> \notin procs'.calls
                       /\ <<"TBBeaconSync", epoch, 0, "error">> \notin procs'.calls
                       /\ beacons' = beacons
                 /\ <<"TBBeaconSync", epoch, 0, "error">> \in newCalls =>
                       /\ <<"calcBeacon", epoch, 0, "sync beacon">> \in newCalls
                       /\ Has(beacons', epoch)
                       /\ beacons'[epoch] = Hash(list)
                 /\ <<"calcBeacon", epoch, 0, "nil">> \in newCalls =>
                       /\ <<"TBBeaconSync", epoch, 0, "ok">> \in newCalls
                       /\ Has(beacons', epoch)
                       /\ beacons'[epoch] = Hash(list)]_vars

\* calcBeacon of TestEpoch has returned the error of the hash list and no
\* beacon of the epoch is recorded
C39_Witness ==
    /\ <<"recalculate votes", TestEpoch, lastPossibleRound, "error">> \in procs.calls
    /\ <<"calcBeacon", TestEpoch, 0, "calc tortoise beacon hash list">> \in procs.calls
    /\ ~Has(beacons, TestEpoch)
    /\ procs.runs = EmptyMap

\* calcBeacon of TestEpoch has returned the error of the broadcast and the
\* beacon of the epoch is recorded
C39_WitnessSync ==
    /\ <<"calcBeacon", TestEpoch, 0, "sync beacon">> \in procs.calls
    /\ Has(beacons, TestEpoch)

(***************************************************************************)
(* The store of the beacons.                                               *)
(***************************************************************************)
\* the epochs a step writes the entry of in the store
savedEpochs ==
    {e \in DOMAIN tortoiseBeaconDB'.store :
        ~Has(tortoiseBeaconDB.store, e) \/ tortoiseBeaconDB'.store[e] # tortoiseBeaconDB.store[e]}

\* C35: what GetBeacon saves in the store for an epoch is the beacon the
\* registry holds for the call (the genesis beacon for a genesis epoch and
\* for the epoch that follows one); a call that finds no beacon saves nothing.
C35_OnlyCalculatedBeaconsSaved ==
    [][\A e \in savedEpochs :
          \/ /\ Has(beacons, epochBefore(e))
             /\ tortoiseBeaconDB'.store[e] = beacons[epochBefore(e)]
          \/ /\ IsGenesis(e) \/ IsGenesis(epochBefore(e))
             /\ tortoiseBeaconDB'.store[e] = genesisBeacon]_vars

(***************************************************************************)
(* The rounds of the weak coin.                                            *)
(***************************************************************************)
\* the rounds of an epoch a step calls weakCoin.OnRoundFinished for, by the
\* goroutine of the votes of the next round or by runConsensusPhase after
\* its wait
roundsFinished ==
    {<<t.epoch, t.round - 1>> : t \in {u \in procs.tasks \ procs'.tasks :
                                          u.kind = "votes" /\ u.pc = "OnRoundFinished"}}
    \cup {<<procs.runs[i].epoch, lastPossibleRound>> :
             i \in {j \in DOMAIN procs.runs : /\ procs.runs[j].pc = "waitAfterLastRoundStarted"
                                              /\ Has(procs'.runs, j)
                                              /\ procs'.runs[j].pc = "calcBeacon"}}

\* C36: weakCoin.OnRoundFinished(epoch, round) is called at most once, and
\* only after weakCoin.OnRoundStarted(epoch, round) was called.
C36_RoundFinishedAfterStarted ==
    [][\A r \in roundsFinished :
          /\ <<"OnRoundFinished", r[1], r[2], "ok">> \notin procs.calls
          /\ <<"OnRoundStarted", r[1], r[2], "ok">> \in procs.calls]_vars

(***************************************************************************)
(* The order of the rounds among the goroutines of the votes.              *)
(***************************************************************************)
\* the broadcast of the votes of a round of an epoch was made, whatever it
\* returned
votesSent(epoch, round) ==
    \E result \in {"ok", "error"} :
       <<IF round = firstRound THEN "TBFirstVoting" ELSE "TBFollowingVoting",
         epoch, round, result>> \in procs.calls

\* C33: the votes of a following round of an epoch are computed and sent
\* only after the votes of the round before it were, the votes of the first
\* round before those of every other round.
C33_VotesInRoundOrder ==
    [][\A c \in newCalls :
          c[1] = "TBFollowingVoting" =>
             \A round \in firstRound..(c[3] - 1) : votesSent(c[2], round)]_vars

\* C37: the current round of an epoch never decreases.
C37_CurrentRoundMonotonic ==
    [][\A epoch \in DOMAIN currentRounds :
          /\ Has(currentRounds', epoch)
          /\ currentRounds'[epoch] >= currentRounds[epoch]]_vars

(***************************************************************************)
(* Close.                                                                  *)
(***************************************************************************)
\* the channels of the broadcasts of the protocol
Broadcasts == {"TBProposal", "TBFirstVoting", "TBFollowingVoting", "TBBeaconSync"}

\* C32: once the close channel is closed, no run of handleEpoch starts a
\* round (no goroutine is started for the votes or the coin of a round) and
\* no run and no sender makes a broadcast: what was started before the close
\* ends at its next step.
C32_CloseTerminatesEverything ==
    [][closed =>
          /\ procs'.tasks \subseteq procs.tasks
          /\ \A c \in newCalls : c[1] \notin Broadcasts]_vars

(***************************************************************************)
(* The locks.  A goroutine runs one function of the node at a time and the *)
(* function is the sequence of its lock operations; a goroutine is a       *)
(* record of procs.threads: the function it runs and the number of         *)
(* operations it has done.  The locks are sync.RWMutex: Lock waits for     *)
(* every other holder, RLock for a writer that holds the lock or waits for *)
(* it.                                                                     *)
(***************************************************************************)
NumGoroutines == 3

Goroutines == 1..NumGoroutines

\* the functions with a lock operation
LockingFunctions ==
    {"handleLayer", "handleEpoch", "runProposalPhase", "setCurrentRound", "calcBeacon",
     "cleanup", "GetBeacon"}

handleLayerHoldsLayerMu ==
    <<<<"Lock", "layerMu">>, <<"Lock", "beaconsMu">>, <<"Unlock", "beaconsMu">>,
      <<"Unlock", "layerMu">>>>

\* handleLayer: tb.layerMu.Lock(); ...; tb.layerMu.Unlock()
handleLayerOps == <<<<"Lock", "layerMu">>, <<"Unlock", "layerMu">>>>

\* cleanup: tb.beaconsMu.Lock(), and in epochIsOutdated tb.layerMu.Lock() and
\* tb.layerMu.Unlock(); defer tb.beaconsMu.Unlock()
cleanupOps ==
    <<<<"Lock", "beaconsMu">>, <<"Lock", "layerMu">>, <<"Unlock", "layerMu">>,
      <<"Unlock", "beaconsMu">>>>

\* the lock operations of a function, in the order it makes them
lockOps(fn) ==
    CASE fn = "handleLayer"      -> handleLayerOps
      [] fn = "handleEpoch"      -> <<<<"Lock", "beaconsMu">>, <<"Unlock", "beaconsMu">>>>
      [] fn = "runProposalPhase" -> <<<<"Lock", "validProposalsMu">>, <<"Unlock", "validProposalsMu">>>>
      [] fn = "setCurrentRound"  -> <<<<"Lock", "currentRoundsMu">>, <<"Unlock", "currentRoundsMu">>>>
      [] fn = "calcBeacon"       -> <<<<"Lock", "beaconsMu">>, <<"Unlock", "beaconsMu">>>>
      [] fn = "cleanup"          -> cleanupOps
      [] fn = "GetBeacon"        -> <<<<"RLock", "beaconsMu">>, <<"RUnlock", "beaconsMu">>>>
      [] OTHER                   -> <<>>

idle == [fn |-> "idle", at |-> 0]

\* the operations a goroutine has done, and the one it is to do
opsDone(g) == SubSeq(lockOps(procs.threads[g].fn), 1, procs.threads[g].at)

nextOp(g) ==
    IF procs.threads[g].at < Len(lockOps(procs.threads[g].fn))
    THEN lockOps(procs.threads[g].fn)[procs.threads[g].at + 1]
    ELSE <<"none", "none">>

\* the locks a goroutine holds, in a mode: those it has locked and not
\* unlocked
holds(g, mode, mu) ==
    \E k \in 1..Len(opsDone(g)) :
       /\ opsDone(g)[k] = <<mode, mu>>
       /\ \A j \in (k + 1)..Len(opsDone(g)) : opsDone(g)[j][2] # mu

heldLocks(g) ==
    {mu \in {op[2] : op \in Range(lockOps(procs.threads[g].fn))} :
        holds(g, "Lock", mu) \/ holds(g, "RLock", mu)}

\* goroutine g waits for goroutine h: g is at a Lock of a lock h holds, or at
\* an RLock of a lock h holds as a writer or waits for as a writer
waitsFor(g, h) ==
    /\ g # h
    /\ \/ /\ nextOp(g)[1] = "Lock"
          /\ nextOp(g)[2] \in heldLocks(h)
       \/ /\ nextOp(g)[1] = "RLock"
          /\ \/ holds(h, "Lock", nextOp(g)[2])
             \/ nextOp(h) = <<"Lock", nextOp(g)[2]>>

\* a goroutine calls a function
CallFunction(g, fn) ==
    /\ listening
    /\ procs.threads[g] = idle
    /\ procs' = [procs EXCEPT !.threads[g] = [fn |-> fn, at |-> 0]]
    /\ UNCHANGED <<votesFields, beacons, beaconsReady, tortoiseBeaconDB, lastLayer, started,
                   closed, firstRoundOutcomingVotes, currentRounds, reader>>

\* the goroutine has done its next operation; its function returns after
\* the last one
afterOp(g) ==
    IF procs.threads[g].at + 1 = Len(lockOps(procs.threads[g].fn)) THEN idle
    ELSE [procs.threads[g] EXCEPT !.at = @ + 1]

\* mu.Lock() or mu.RLock() returns
Acquire(g) ==
    /\ nextOp(g)[1] \in {"Lock", "RLock"}
    /\ \A h \in Goroutines : ~waitsFor(g, h)
    /\ procs' = [procs EXCEPT !.threads[g] = afterOp(g)]
    /\ UNCHANGED <<votesFields, beacons, beaconsReady, tortoiseBeaconDB, lastLayer, started,
                   closed, firstRoundOutcomingVotes, currentRounds, reader>>

\* mu.Unlock() or mu.RUnlock()
Release(g) ==
    /\ nextOp(g)[1] \in {"Unlock", "RUnlock"}
    /\ procs' = [procs EXCEPT !.threads[g] = afterOp(g)]
    /\ UNCHANGED <<votesFields, beacons, beaconsReady, tortoiseBeaconDB, lastLayer, started,
                   closed, firstRoundOutcomingVotes, currentRounds, reader>>

\* the node as New() builds it, its goroutines idle
InitLocks ==
    /\ validProposals = EmptyMap
    /\ potentiallyValidProposals = EmptyMap
    /\ incomingVotes = EmptyMap
    /\ ownVotes = EmptyMap
    /\ weakCoin = FALSE
    /\ epochWeight = 1
    /\ config = [Theta |-> 1]
    /\ beacons = EmptyMap
    /\ beaconsReady = EmptyMap
    /\ tortoiseBeaconDB = [isNil |-> TRUE, store |-> EmptyMap]
    /\ lastLayer = 0
    /\ started = FALSE
    /\ closed = FALSE
    /\ firstRoundOutcomingVotes = EmptyMap
    /\ currentRounds = EmptyMap
    /\ procs = [start |-> [pc |-> "new", epoch |-> 0], runs |-> EmptyMap,
                threads |-> [g \in Goroutines |-> idle]]
    /\ pc = "start"
    /\ arg = [epoch |-> 0]
    /\ ret = None

NextLocks ==
    \/ InitGenesisBeacon
    \/ InitGenesisReady
    \/ InitNextReady
    \/ \E g \in Goroutines, fn \in LockingFunctions : CallFunction(g, fn)
    \/ \E g \in Goroutines : Acquire(g)
    \/ \E g \in Goroutines : Release(g)

SpecLocks == InitLocks /\ [][NextLocks]_vars

\* the place of a lock in the declared order proposals, votes, beacons,
\* currentRound; 0 for a lock that is not one of the stores
lockRank(mu) ==
    CASE mu \in {"validProposalsMu", "potentiallyValidProposalsMu"} -> 1
      [] mu = "votesMu"         -> 2
      [] mu = "beaconsMu"       -> 3
      [] mu = "currentRoundsMu" -> 4
      [] OTHER                  -> 0

\* C31: a goroutine that holds a lock of a store asks only for locks of the
\* stores that come later in the declared order, and no set of goroutines
\* wait for one another in a circle: some goroutine of every set of waiting
\* goroutines waits for none of the set.
C31_LockOrder ==
    /\ \A g \in Goroutines :
          nextOp(g)[1] \in {"Lock", "RLock"} =>
             \A mu \in heldLocks(g) :
                (lockRank(mu) > 0 /\ lockRank(nextOp(g)[2]) > 0) =>
                   lockRank(mu) < lockRank(nextOp(g)[2])
    /\ \A S \in SUBSET Goroutines :
          S # {} => \E g \in S : \A h \in S : ~waitsFor(g, h)

\* cleanup holds beaconsMu and layerMu at once, a goroutine in calcBeacon
\* waits for beaconsMu and a goroutine in handleLayer waits for layerMu
C31_Witness ==
    \E g, h, k \in Goroutines :
       /\ procs.threads[g].fn = "cleanup"
       /\ heldLocks(g) = {"beaconsMu", "layerMu"}
       /\ procs.threads[h].fn = "calcBeacon"
       /\ waitsFor(h, g)
       /\ procs.threads[k].fn = "handleLayer"
       /\ waitsFor(k, g)

(***************************************************************************)
(* GetBeacon step by step.  The caller takes the read lock of beaconsMu,   *)
(* looks for the beacon of the epoch before up to getBeaconAttempts times  *)
(* with a sleep after each miss, saves what it has and returns; the read   *)
(* lock is released when it returns.  A writer of tb.beacons takes the     *)
(* lock for its write.                                                     *)
(***************************************************************************)
\* tb.beaconsMu is read-locked: GetBeacon is between RLock and its return
beaconsMuRLocked == pc \in {"GetBeacon.wait", "GetBeacon.save"}

\* GetBeacon up to tb.beaconsMu.RLock()
GetBeaconRLock(epochID) ==
    /\ listening
    /\ pc = "start"
    /\ IF inDB(epochID)
       THEN /\ pc' = "GetBeacon"
            /\ arg' = [epoch |-> epochID]
            /\ ret' = [beacon |-> tortoiseBeaconDB.store[epochID], err |-> "nil", attempts |-> 0]
       ELSE IF IsGenesis(epochBefore(epochID))
       THEN /\ pc' = "GetBeacon"
            /\ arg' = [epoch |-> epochID]
            /\ ret' = [beacon |-> genesisBeacon, err |-> "nil", attempts |-> 0]
       ELSE /\ pc' = "GetBeacon.wait"
            /\ arg' = [epoch |-> epochID, attempts |-> 0, beacon |-> zeroHash]
            /\ UNCHANGED ret
    /\ UNCHANGED <<votesFields, registryFields>>

\* where the loop of GetBeacon goes after an attempt: out of the loop when
\* the beacon is found or the attempts are used up
afterAttempt(attempts, ok) ==
    IF ok \/ attempts = getBeaconAttempts THEN "GetBeacon.save" ELSE "GetBeacon.wait"

\* GetBeacon: beacon, ok = tb.beacons[epochID-1], and time.Sleep when it is
\* not there
GetBeaconAttempt ==
    /\ pc = "GetBeacon.wait"
    /\ LET ok == Has(beacons, epochBefore(arg.epoch))
       IN  /\ pc' = afterAttempt(arg.attempts + 1, ok)
           /\ arg' = [arg EXCEPT !.attempts = @ + 1,
                                 !.beacon = IF ok THEN beacons[epochBefore(arg.epoch)] ELSE @]
    /\ UNCHANGED <<votesFields, registryFields, ret>>

\* GetBeacon: tb.tortoiseBeaconDB.SetTortoiseBeacon(epochID, beacon), the
\* return and the deferred tb.beaconsMu.RUnlock()
GetBeaconSave ==
    /\ pc = "GetBeacon.save"
    /\ pc' = "GetBeacon"
    /\ arg' = [epoch |-> arg.epoch]
    /\ \/ /\ tortoiseBeaconDB' = setInDB(arg.epoch, arg.beacon)
          /\ ret' = [beacon |-> arg.beacon, err |-> "nil", attempts |-> arg.attempts]
       \/ /\ ~tortoiseBeaconDB.isNil
          /\ UNCHANGED tortoiseBeaconDB
          /\ ret' = [beacon |-> noBeacon, err |-> "update beacon in DB", attempts |-> arg.attempts]
    /\ UNCHANGED <<votesFields, beacons, beaconsReady, lastLayer, started, closed,
                   firstRoundOutcomingVotes, currentRounds, procs>>

\* calcBeacon, whose tb.beaconsMu.Lock() waits for the readers
LockedCalcBeacon(i) == ~beaconsMuRLocked /\ CalcBeacon(i)

\* cleanup, whose tb.beaconsMu.Lock() waits for the readers
LockedCleanup == ~beaconsMuRLocked /\ Cleanup

\* the node with one caller of GetBeacon
NextWaiting ==
    \/ InitGenesisBeacon
    \/ InitGenesisReady
    \/ InitNextReady
    \/ \E layer \in SchedulerLayers : layer > lastLayer /\ HandleLayer(layer)
    \/ \E i \in 1..MaxRuns : RunProposalPhase(i)
    \/ \E i \in 1..MaxRuns : SendVotes(i)
    \/ \E i \in 1..MaxRuns : ConsensusClosed(i)
    \/ \E i \in 1..MaxRuns : LockedCalcBeacon(i)
    \/ LockedCleanup
    \/ Close
    \/ \E epochID \in ReadEpochs : GetBeaconRLock(epochID)
    \/ GetBeaconAttempt
    \/ GetBeaconSave
    \/ Return

SpecWaiting == InitRegistry /\ [][NextWaiting]_vars

\* C34: while GetBeacon waits for the beacon of an epoch that is not
\* recorded, a run of handleEpoch that has come to calcBeacon of the epoch
\* can take its step and record the beacon.
C34_WaitingReaderLetsWriterIn ==
    \A i \in DOMAIN procs.runs :
       (/\ pc = "GetBeacon.wait"
        /\ procs.runs[i].pc = "calcBeacon"
        /\ procs.runs[i].epoch = epochBefore(arg.epoch)) => ENABLED LockedCalcBeacon(i)
====
